---- MODULE Spec2Model ----
(***************************************************************************)
(* The working-state store of PromptStruct (src/src/stores/editorStore.ts) *)
(* as a state machine.  The zustand store is one state object; every       *)
(* handler reads a snapshot of it (const state = get()) and then issues    *)
(* one or more set(...) calls.  Each handler is modelled by the list of    *)
(* set calls it issues, computed from the snapshot as the code computes    *)
(* them, and by the fold of those calls over the store.                    *)
(***************************************************************************)
EXTENDS Naturals, Sequences, FiniteSets, TLC

VARIABLES
    store,          \* the zustand state object (EditorState)
    now,            \* the last reading of the clock (Date.now(), new Date())
    pending,        \* set calls of the running handler not yet applied
    snapshot,       \* the store when the running handler was dispatched
    steps,          \* number of handler calls so far
    autoSaveCalled, \* history: prompts on which saveCurrentPrompt(true) ran
    imported,       \* history: versions came into the store through an import
    firstLoad,      \* history: structure each prompt got at its first load
    preview,        \* a call of getProcessedElementContent and its result
    importJob       \* an import: the payload, its analysis, the resolved data

vars == <<store, now, pending, snapshot, steps, autoSaveCalled, imported, firstLoad,
          preview, importJob>>

(***************************************************************************)
(* Bounds and input domains                                                *)
(***************************************************************************)
MaxSteps == 3
MaxClock == 1
MaxVersions == 3
MaxElements == 2

PromptIds == {"p1", "p2"}
ElementIds == {<<"test-", 1>>, <<"test-", 2>>}
ControlNames == {"k", "j"}
Values == {"x", "y"}
UserValues == {"y"}
Contents == {"plain", "{{text:k:x}}"}

(***************************************************************************)
(* Data                                                                    *)
(***************************************************************************)
\* a key that a JavaScript object does not hold
Absent == "absent"

\* Prompt.currentVersion = '' and the id `ver_${Date.now()}`: an id is its
\* text before the number and the number
NoVersion == <<>>
VerId(t) == <<"ver_now+", t>>

\* `struct_${Date.now()}`
StructId(t) == <<"struct_now+", t>>

\* currentPrompt: null
NoPrompt == [id |-> "null", currentVersion |-> NoVersion, versions |-> <<>>]

\* optional fields of PromptUIState: undefined, or a value
NoStructure == [defined |-> FALSE, value |-> <<>>]
SomeStructure(s) == [defined |-> TRUE, value |-> s]
EmptyValues == [n \in ControlNames |-> Absent]
NoValues == [defined |-> FALSE, value |-> EmptyValues]
SomeValues(m) == [defined |-> TRUE, value |-> m]

\* Object.keys(values).length > 0
HasKeys(m) == \E n \in ControlNames : m[n] # Absent

\* the object literal used wherever promptUIStates[id] is missing
DefaultUIState ==
    [present |-> TRUE,
     starredControls |-> [e \in ElementIds |-> [defined |-> FALSE, value |-> <<>>]],
     starredTextBoxes |-> <<>>,
     uiCollapsedByElementId |-> [e \in ElementIds |-> Absent],
     uiMiniEditorCollapsed |-> [e \in ElementIds |-> Absent],
     uiGlobalControlValues |-> EmptyValues,
     modifiedStructure |-> NoStructure,
     originalStructure |-> NoStructure,
     originalControlValues |-> NoValues]

\* promptUIStates[id] === undefined
AbsentUIState == [DefaultUIState EXCEPT !.present = FALSE]

InitialStructure ==
    << [id |-> <<"struct_", 1>>, name |-> "Persona", enabled |-> TRUE,
        autoRemoveEmptyLines |-> TRUE,
        content |-> "You are a master storyteller. Your task is to create compelling characters based on the following traits."],
       [id |-> <<"struct_", 2>>, name |-> "Core Traits", enabled |-> TRUE,
        autoRemoveEmptyLines |-> TRUE,
        content |-> "The character is a {{select:Class:Warrior|Mage|Rogue}} of the {{text:Race:Elven}} race. They are known for their {{text:Key_Virtue:Bravery}}."],
       [id |-> <<"struct_", 3>>, name |-> "Extra Details", enabled |-> FALSE,
        autoRemoveEmptyLines |-> TRUE,
        content |-> "{{toggle:Add_Secret}}They harbor a dark secret: they are secretly afraid of {{text:Secret_Fear:spiders}}.{{/toggle:Add_Secret}}"] >>

InitialStore ==
    [structure |-> InitialStructure,
     currentPrompt |-> NoPrompt,
     prompts |-> <<>>,
     versions |-> <<>>,
     starredControls |-> [e \in ElementIds |-> [defined |-> FALSE, value |-> <<>>]],
     starredTextBoxes |-> <<>>,
     uiCollapsedByElementId |-> [e \in ElementIds |-> Absent],
     uiMiniEditorCollapsed |-> [e \in ElementIds |-> Absent],
     uiGlobalControlValues |-> EmptyValues,
     promptUIStates |-> [p \in PromptIds |-> AbsentUIState]]

(***************************************************************************)
(* Helpers for the array methods the code uses                             *)
(***************************************************************************)
\* index of the first element satisfying Test, 0 when none (Array.find)
FindIndex(seq, Test(_)) ==
    IF \E i \in 1..Len(seq) : Test(seq[i])
    THEN CHOOSE i \in 1..Len(seq) :
            Test(seq[i]) /\ \A j \in 1..(i - 1) : ~Test(seq[j])
    ELSE 0

\* seq without its i-th element
RemoveAt(seq, i) == SubSeq(seq, 1, i - 1) \o SubSeq(seq, i + 1, Len(seq))

\* index of the element a stable descending sort by createdAt puts first
NewestIndex(vs) ==
    CHOOSE i \in 1..Len(vs) :
        /\ \A j \in 1..Len(vs) : vs[j].createdAt <= vs[i].createdAt
        /\ \A j \in 1..(i - 1) : vs[j].createdAt < vs[i].createdAt

\* versions.sort((a, b) => time(b.createdAt) - time(a.createdAt)), stable
RECURSIVE SortByCreatedAtDesc(_)
SortByCreatedAtDesc(vs) ==
    IF vs = <<>> THEN <<>>
    ELSE LET i == NewestIndex(vs)
         IN  <<vs[i]>> \o SortByCreatedAtDesc(RemoveAt(vs, i))

\* { ...base, ...updates } for the fields a partial object holds
Has(obj, field) == field \in DOMAIN obj

(***************************************************************************)
(* parseControlSyntax(content): the default values of the controls found   *)
(* in an element's content ({{text:NAME:DEFAULT}})                         *)
(***************************************************************************)
ControlDefaults(content) ==
    [n \in ControlNames |->
        IF content = "{{text:k:x}}" /\ n = "k" THEN "x" ELSE Absent]

\* lines 714-726: defaults of every control of every element, last one wins
RECURSIVE DefaultsOfStructure(_)
DefaultsOfStructure(s) ==
    IF s = <<>> THEN EmptyValues
    ELSE LET before == DefaultsOfStructure(SubSeq(s, 1, Len(s) - 1))
             here == ControlDefaults(s[Len(s)].content)
         IN  [n \in ControlNames |->
                IF here[n] # Absent THEN here[n] ELSE before[n]]

\* ensureElementDefaults that sets the flag whatever the element holds
ensureElementDefaultsOverwriting(element) ==
    [id |-> element.id, name |-> element.name, enabled |-> element.enabled,
     content |-> element.content, autoRemoveEmptyLines |-> TRUE]

\* { ...element, autoRemoveEmptyLines: element.autoRemoveEmptyLines ?? true }
ensureElementDefaults(element) ==
    [id |-> element.id, name |-> element.name, enabled |-> element.enabled,
     content |-> element.content,
     autoRemoveEmptyLines |->
        IF Has(element, "autoRemoveEmptyLines")
        THEN element.autoRemoveEmptyLines ELSE TRUE]

ensureStructureDefaults(s) == [i \in 1..Len(s) |-> ensureElementDefaults(s[i])]

(***************************************************************************)
(* The store's set calls: each operator is one set(...) of the code,       *)
(* applied to the store st as it is when the call runs                     *)
(***************************************************************************)
\* { ...element, ...updates }
MergeElement(element, updates) ==
    [id |-> IF Has(updates, "id") THEN updates.id ELSE element.id,
     name |-> IF Has(updates, "name") THEN updates.name ELSE element.name,
     enabled |->
        IF Has(updates, "enabled") THEN updates.enabled ELSE element.enabled,
     content |->
        IF Has(updates, "content") THEN updates.content ELSE element.content,
     autoRemoveEmptyLines |->
        IF Has(updates, "autoRemoveEmptyLines")
        THEN updates.autoRemoveEmptyLines ELSE element.autoRemoveEmptyLines]

\* state.promptUIStates[id] || { starredControls: {}, ... }
UIStateOrDefault(st, promptId) ==
    IF st.promptUIStates[promptId].present
    THEN st.promptUIStates[promptId] ELSE DefaultUIState

\* { ...base, ...uiState } on PromptUIState
MergeUIState(base, uiState) ==
    [present |-> TRUE,
     starredControls |->
        IF Has(uiState, "starredControls")
        THEN uiState.starredControls ELSE base.starredControls,
     starredTextBoxes |->
        IF Has(uiState, "starredTextBoxes")
        THEN uiState.starredTextBoxes ELSE base.starredTextBoxes,
     uiCollapsedByElementId |->
        IF Has(uiState, "uiCollapsedByElementId")
        THEN uiState.uiCollapsedByElementId ELSE base.uiCollapsedByElementId,
     uiMiniEditorCollapsed |->
        IF Has(uiState, "uiMiniEditorCollapsed")
        THEN uiState.uiMiniEditorCollapsed ELSE base.uiMiniEditorCollapsed,
     uiGlobalControlValues |->
        IF Has(uiState, "uiGlobalControlValues")
        THEN uiState.uiGlobalControlValues ELSE base.uiGlobalControlValues,
     modifiedStructure |->
        IF Has(uiState, "modifiedStructure")
        THEN uiState.modifiedStructure ELSE base.modifiedStructure,
     originalStructure |->
        IF Has(uiState, "originalStructure")
        THEN uiState.originalStructure ELSE base.originalStructure,
     originalControlValues |->
        IF Has(uiState, "originalControlValues")
        THEN uiState.originalControlValues ELSE base.originalControlValues]

setPromptUIState(st, promptId, uiState) ==
    [st EXCEPT !.promptUIStates[promptId] =
        MergeUIState(UIStateOrDefault(st, promptId), uiState)]

\* a mirror that takes the new structure for the baseline as well
MirrorStructureRebasing(st, updatedStructure) ==
    IF st.currentPrompt # NoPrompt
    THEN [st.promptUIStates EXCEPT ![st.currentPrompt.id] =
            [UIStateOrDefault(st, st.currentPrompt.id) EXCEPT
                !.modifiedStructure = SomeStructure(updatedStructure),
                !.originalStructure = SomeStructure(updatedStructure)]]
    ELSE st.promptUIStates

\* the mirror into promptUIStates of updateStructuralElement and of
\* resetElementContent: modifiedStructure := the new structure, the
\* originals kept
MirrorStructure(st, updatedStructure) ==
    IF st.currentPrompt # NoPrompt
    THEN [st.promptUIStates EXCEPT ![st.currentPrompt.id] =
            [UIStateOrDefault(st, st.currentPrompt.id) EXCEPT
                !.modifiedStructure = SomeStructure(updatedStructure)]]
    ELSE st.promptUIStates

\* updateStructuralElement without the mirror into promptUIStates
updateStructuralElementLiveOnly(st, id, updates) ==
    [st EXCEPT !.structure =
        [i \in 1..Len(st.structure) |->
            IF st.structure[i].id = id
            THEN MergeElement(st.structure[i], updates)
            ELSE st.structure[i]]]

updateStructuralElement(st, id, updates) ==
    LET updatedStructure ==
            [i \in 1..Len(st.structure) |->
                IF st.structure[i].id = id
                THEN MergeElement(st.structure[i], updates)
                ELSE st.structure[i]]
    IN  [st EXCEPT !.structure = updatedStructure,
                   !.promptUIStates = MirrorStructure(st, updatedStructure)]

\* element.id ?? `struct_${Date.now()}`, autoRemoveEmptyLines ?? true
addStructuralElement(st, element, t) ==
    [st EXCEPT !.structure =
        Append(@, [id |-> IF Has(element, "id") THEN element.id ELSE StructId(t),
                   name |-> element.name,
                   enabled |-> element.enabled,
                   content |-> element.content,
                   autoRemoveEmptyLines |->
                      IF Has(element, "autoRemoveEmptyLines")
                      THEN element.autoRemoveEmptyLines ELSE TRUE])]

\* removeStructuralElement that removes the first element as well
removeStructuralElementAndFirst(st, id) ==
    [st EXCEPT !.structure =
        SelectSeq(Tail(@), LAMBDA element : element.id # id)]

removeStructuralElement(st, id) ==
    [st EXCEPT !.structure = SelectSeq(@, LAMBDA element : element.id # id)]

toggleStructuralElement(st, id) ==
    [st EXCEPT !.structure =
        [i \in 1..Len(@) |->
            IF @[i].id = id THEN [@[i] EXCEPT !.enabled = ~@] ELSE @[i]]]

updateStructure(st, newStructure) == [st EXCEPT !.structure = newStructure]

setUiGlobalControlValues(st, values) ==
    [st EXCEPT
        !.uiGlobalControlValues = values,
        !.promptUIStates =
            IF st.currentPrompt # NoPrompt
            THEN [@ EXCEPT ![st.currentPrompt.id] =
                    [UIStateOrDefault(st, st.currentPrompt.id) EXCEPT
                        !.uiGlobalControlValues = values]]
            ELSE @]

addPrompt(st, prompt) == [st EXCEPT !.prompts = Append(@, prompt)]

updatePrompt(st, id, updates) ==
    [st EXCEPT !.prompts =
        [i \in 1..Len(@) |->
            IF @[i].id = id
            THEN [@[i] EXCEPT !.currentVersion = updates.currentVersion,
                              !.versions = updates.versions]
            ELSE @[i]]]

addVersion(st, version) == [st EXCEPT !.versions = Append(@, version)]

updateVersion(st, id, updates) ==
    [st EXCEPT !.versions =
        [i \in 1..Len(@) |->
            IF @[i].id = id
            THEN [@[i] EXCEPT !.structure = updates.structure,
                              !.createdAt = updates.createdAt]
            ELSE @[i]]]

deleteVersion(st, id) ==
    [st EXCEPT !.versions = SelectSeq(@, LAMBDA version : version.id # id)]

\* the last set(...) of setCurrentPrompt
setWorkingState(st, partial) ==
    [st EXCEPT !.currentPrompt = partial.currentPrompt,
               !.structure = partial.structure,
               !.starredControls = partial.starredControls,
               !.starredTextBoxes = partial.starredTextBoxes,
               !.uiGlobalControlValues = partial.uiGlobalControlValues,
               !.uiCollapsedByElementId = partial.uiCollapsedByElementId,
               !.uiMiniEditorCollapsed = partial.uiMiniEditorCollapsed]

\* a reset that writes the restored content to the working copy of the
\* prompt's UI state and not to the live structure
setResetContentMirrorOnly(st, elementId, content) ==
    LET updatedStructure ==
            [i \in 1..Len(st.structure) |->
                IF st.structure[i].id = elementId
                THEN [st.structure[i] EXCEPT !.content = content]
                ELSE st.structure[i]]
    IN  [st EXCEPT !.promptUIStates = MirrorStructure(st, updatedStructure)]

\* a reset that gives the restored content to every element of the structure
setResetContentOfEveryElement(st, elementId, content) ==
    LET updatedStructure ==
            [i \in 1..Len(st.structure) |->
                [st.structure[i] EXCEPT !.content = content]]
    IN  [st EXCEPT !.structure = updatedStructure,
                   !.promptUIStates = MirrorStructure(st, updatedStructure)]

\* the set(...) of resetElementContent (lines 888-919)
setResetContent(st, elementId, content) ==
    LET updatedStructure ==
            [i \in 1..Len(st.structure) |->
                IF st.structure[i].id = elementId
                THEN [st.structure[i] EXCEPT !.content = content]
                ELSE st.structure[i]]
    IN  [st EXCEPT !.structure = updatedStructure,
                   !.promptUIStates = MirrorStructure(st, updatedStructure)]

\* lines 319-345: one element's entry, in the working map and in the
\* open prompt's record
setUiCollapsedForElement(st, id, collapsed) ==
    [st EXCEPT
        !.uiCollapsedByElementId = [@ EXCEPT ![id] = collapsed],
        !.promptUIStates =
            IF st.currentPrompt # NoPrompt
            THEN [@ EXCEPT ![st.currentPrompt.id] =
                    [UIStateOrDefault(st, st.currentPrompt.id) EXCEPT
                        !.uiCollapsedByElementId = [@ EXCEPT ![id] = collapsed]]]
            ELSE @]

\* lines 372-394: the whole map
setUiCollapsedByElementId(st, collapsed) ==
    [st EXCEPT
        !.uiCollapsedByElementId = collapsed,
        !.promptUIStates =
            IF st.currentPrompt # NoPrompt
            THEN [@ EXCEPT ![st.currentPrompt.id] =
                    [UIStateOrDefault(st, st.currentPrompt.id) EXCEPT
                        !.uiCollapsedByElementId = collapsed]]
            ELSE @]

\* lines 400-425
setUiMiniEditorCollapsed(st, elementId, collapsed) ==
    [st EXCEPT
        !.uiMiniEditorCollapsed = [@ EXCEPT ![elementId] = collapsed],
        !.promptUIStates =
            IF st.currentPrompt # NoPrompt
            THEN [@ EXCEPT ![st.currentPrompt.id] =
                    [UIStateOrDefault(st, st.currentPrompt.id) EXCEPT
                        !.uiMiniEditorCollapsed =
                            [@ EXCEPT ![elementId] = collapsed]]]
            ELSE @]

\* lines 426-462: the control's name taken out of the element's list when
\* it is in it (splice at indexOf), pushed otherwise
toggleStarControl(st, elementId, controlName) ==
    LET currentStarred ==
            IF st.starredControls[elementId].defined
            THEN st.starredControls[elementId].value ELSE <<>>
        index == IF \E i \in 1..Len(currentStarred) :
                        currentStarred[i] = controlName
                 THEN CHOOSE i \in 1..Len(currentStarred) :
                        /\ currentStarred[i] = controlName
                        /\ \A j \in 1..(i - 1) : currentStarred[j] # controlName
                 ELSE 0
        newStarred ==
            [defined |-> TRUE,
             value |-> IF index > 0 THEN RemoveAt(currentStarred, index)
                       ELSE Append(currentStarred, controlName)]
    IN  [st EXCEPT
            !.starredControls = [@ EXCEPT ![elementId] = newStarred],
            !.promptUIStates =
                IF st.currentPrompt # NoPrompt
                THEN [@ EXCEPT ![st.currentPrompt.id] =
                        [UIStateOrDefault(st, st.currentPrompt.id) EXCEPT
                            !.starredControls =
                                [@ EXCEPT ![elementId] = newStarred]]]
                ELSE @]

\* toggleStarTextBox without its write to the open prompt's record
toggleStarTextBoxWorkingOnly(st, elementId) ==
    LET current == st.starredTextBoxes
        newStarredTextBoxes ==
            IF \E i \in 1..Len(current) : current[i] = elementId
            THEN SelectSeq(current, LAMBDA e : e # elementId)
            ELSE Append(current, elementId)
    IN  [st EXCEPT !.starredTextBoxes = newStarredTextBoxes]

\* lines 463-497
toggleStarTextBox(st, elementId) ==
    LET current == st.starredTextBoxes
        index == IF \E i \in 1..Len(current) : current[i] = elementId
                 THEN CHOOSE i \in 1..Len(current) :
                        /\ current[i] = elementId
                        /\ \A j \in 1..(i - 1) : current[j] # elementId
                 ELSE 0
        newStarredTextBoxes ==
            IF index > 0 THEN RemoveAt(current, index)
            ELSE Append(current, elementId)
    IN  [st EXCEPT
            !.starredTextBoxes = newStarredTextBoxes,
            !.promptUIStates =
                IF st.currentPrompt # NoPrompt
                THEN [@ EXCEPT ![st.currentPrompt.id] =
                        [UIStateOrDefault(st, st.currentPrompt.id) EXCEPT
                            !.starredTextBoxes = newStarredTextBoxes]]
                ELSE @]

\* the set(...) of resetControlValue (lines 940-961)
setResetControl(st, updatedControlValues) ==
    [st EXCEPT
        !.uiGlobalControlValues = updatedControlValues,
        !.promptUIStates =
            [@ EXCEPT ![st.currentPrompt.id] =
                [UIStateOrDefault(st, st.currentPrompt.id) EXCEPT
                    !.uiGlobalControlValues = updatedControlValues]]]

\* one set call, as data, and its effect
Call(kind, a, b) == [kind |-> kind, a |-> a, b |-> b]

ApplyCall(st, call) ==
    CASE call.kind = "setPromptUIState" -> setPromptUIState(st, call.a, call.b)
      [] call.kind = "updateStructuralElement" ->
            updateStructuralElement(st, call.a, call.b)
      [] call.kind = "addStructuralElement" ->
            addStructuralElement(st, call.a, call.b)
      [] call.kind = "removeStructuralElement" ->
            removeStructuralElement(st, call.a)
      [] call.kind = "toggleStructuralElement" ->
            toggleStructuralElement(st, call.a)
      [] call.kind = "updateStructure" -> updateStructure(st, call.a)
      [] call.kind = "setUiGlobalControlValues" ->
            setUiGlobalControlValues(st, call.a)
      [] call.kind = "addPrompt" -> addPrompt(st, call.a)
      [] call.kind = "updatePrompt" -> updatePrompt(st, call.a, call.b)
      [] call.kind = "addVersion" -> addVersion(st, call.a)
      [] call.kind = "updateVersion" -> updateVersion(st, call.a, call.b)
      [] call.kind = "deleteVersion" -> deleteVersion(st, call.a)
      [] call.kind = "setWorkingState" -> setWorkingState(st, call.a)
      [] call.kind = "setResetContent" -> setResetContent(st, call.a, call.b)
      [] call.kind = "setResetControl" -> setResetControl(st, call.a)
      [] call.kind = "setUiCollapsedForElement" ->
            setUiCollapsedForElement(st, call.a, call.b)
      [] call.kind = "setUiCollapsedByElementId" ->
            setUiCollapsedByElementId(st, call.a)
      [] call.kind = "setUiMiniEditorCollapsed" ->
            setUiMiniEditorCollapsed(st, call.a, call.b)
      [] call.kind = "toggleStarControl" ->
            toggleStarControl(st, call.a, call.b)
      [] call.kind = "toggleStarTextBox" -> toggleStarTextBox(st, call.a)

\* a handler run to completion: its set calls applied in order
RECURSIVE Run(_, _)
RunFrom(st, calls) ==
    IF calls = <<>> THEN st ELSE Run(ApplyCall(st, Head(calls)), Tail(calls))

\* the store and the calls are values before the calls run
Run(st, calls) ==
    CHOOSE result \in {RunFrom(s, cs) : s \in {st}, cs \in {calls}} : TRUE

(***************************************************************************)
(* The handlers: the set calls each issues, computed from the snapshot     *)
(* st = get() taken on entry (and from Date.now() = t)                     *)
(***************************************************************************)
\* state.versions.find(v => v.promptId === id && v.isAutoSave === true)
ExistingAutoSaveIndex(st, promptId) ==
    FindIndex(st.versions,
              LAMBDA v : v.promptId = promptId /\ v.isAutoSave = TRUE)

\* lines 578-626: the outgoing prompt's UI state and auto-save
FlushCalls(st, t) ==
    IF st.currentPrompt = NoPrompt THEN <<>>
    ELSE
    LET id == st.currentPrompt.id
        structureToSave ==
            IF Len(st.structure) > 0
            THEN SomeStructure(st.structure) ELSE NoStructure
        existingUIState == st.promptUIStates[id]
        currentPromptUIState ==
            [starredControls |-> st.starredControls,
             starredTextBoxes |-> st.starredTextBoxes,
             uiGlobalControlValues |-> st.uiGlobalControlValues,
             uiCollapsedByElementId |-> st.uiCollapsedByElementId,
             uiMiniEditorCollapsed |-> st.uiMiniEditorCollapsed,
             modifiedStructure |-> structureToSave]
            @@ (IF existingUIState.present
                   /\ existingUIState.originalStructure.defined
                THEN [originalStructure |-> existingUIState.originalStructure]
                ELSE <<>>)
            @@ (IF existingUIState.present
                   /\ existingUIState.originalControlValues.defined
                THEN [originalControlValues |->
                        existingUIState.originalControlValues]
                ELSE <<>>)
        existingAutoSave == ExistingAutoSaveIndex(st, id)
    IN  <<Call("setPromptUIState", id, currentPromptUIState)>>
        \o (IF structureToSave.defined /\ Len(structureToSave.value) > 0
            THEN IF existingAutoSave # 0
                 THEN <<Call("updateVersion", st.versions[existingAutoSave].id,
                             [structure |-> structureToSave.value,
                              createdAt |-> t])>>
                 ELSE <<Call("addVersion",
                             [id |-> VerId(t), promptId |-> id,
                              createdAt |-> t,
                              structure |-> structureToSave.value,
                              isAutoSave |-> TRUE], <<>>)>>
            ELSE <<>>)

\* lines 670-700: the structure found in the versions of the snapshot
StructureFromVersions(st, prompt) ==
    LET current ==
            FindIndex(st.versions, LAMBDA v : v.id = prompt.currentVersion)
        fromCurrentVersion ==
            IF prompt.currentVersion # NoVersion /\ current # 0
            THEN st.versions[current].structure ELSE <<>>
        nonAutoSaveVersions ==
            SortByCreatedAtDesc(SelectSeq(st.versions,
                LAMBDA v : v.promptId = prompt.id /\ ~v.isAutoSave))
        fromNonAutoSave ==
            IF Len(fromCurrentVersion) = 0 /\ Len(nonAutoSaveVersions) > 0
            THEN nonAutoSaveVersions[1].structure ELSE fromCurrentVersion
        autoSaveVersions ==
            SortByCreatedAtDesc(SelectSeq(st.versions,
                LAMBDA v : v.promptId = prompt.id /\ v.isAutoSave = TRUE))
    IN  IF Len(fromNonAutoSave) = 0 /\ Len(autoSaveVersions) > 0
        THEN autoSaveVersions[1].structure ELSE fromNonAutoSave

\* lines 628-762: the incoming prompt's structure, baseline and UI state
LoadCalls(st, prompt) ==
    IF prompt = NoPrompt
    THEN <<Call("setWorkingState",
                [currentPrompt |-> NoPrompt, structure |-> <<>>,
                 starredControls |-> DefaultUIState.starredControls,
                 starredTextBoxes |-> DefaultUIState.starredTextBoxes,
                 uiGlobalControlValues |-> EmptyValues,
                 uiCollapsedByElementId |->
                    DefaultUIState.uiCollapsedByElementId,
                 uiMiniEditorCollapsed |->
                    DefaultUIState.uiMiniEditorCollapsed], <<>>)>>
    ELSE
    LET savedUIState == st.promptUIStates[prompt.id]
        saved == savedUIState.present
        uiStateToLoad == IF saved THEN savedUIState ELSE DefaultUIState
        loadedValues == uiStateToLoad.uiGlobalControlValues
        hasModified ==
            /\ saved
            /\ savedUIState.modifiedStructure.defined
            /\ Len(savedUIState.modifiedStructure.value) > 0
        fromModified ==
            IF hasModified THEN savedUIState.modifiedStructure.value ELSE <<>>
        savedOriginal ==
            IF saved /\ savedUIState.originalStructure.defined
            THEN savedUIState.originalStructure
            ELSE IF hasModified
                 THEN SomeStructure(savedUIState.modifiedStructure.value)
                 ELSE NoStructure
        savedOriginalValues ==
            IF saved /\ savedUIState.originalControlValues.defined
            THEN savedUIState.originalControlValues ELSE NoValues
        fromVersion == Len(fromModified) = 0
        structureToLoad ==
            IF fromVersion THEN StructureFromVersions(st, prompt)
            ELSE fromModified
        originalStructureToStore ==
            IF fromVersion /\ Len(structureToLoad) > 0 /\ ~savedOriginal.defined
            THEN SomeStructure(structureToLoad) ELSE savedOriginal
        originalControlValuesToStore ==
            IF fromVersion /\ Len(structureToLoad) > 0
               /\ ~savedOriginalValues.defined
            THEN IF saved /\ HasKeys(savedUIState.uiGlobalControlValues)
                 THEN SomeValues(savedUIState.uiGlobalControlValues)
                 ELSE SomeValues(DefaultsOfStructure(structureToLoad))
            ELSE savedOriginalValues
        normalizedStructure == ensureStructureDefaults(structureToLoad)
        updatedUIState ==
            [starredControls |-> uiStateToLoad.starredControls,
             starredTextBoxes |-> uiStateToLoad.starredTextBoxes,
             uiGlobalControlValues |-> loadedValues,
             uiCollapsedByElementId |-> uiStateToLoad.uiCollapsedByElementId,
             uiMiniEditorCollapsed |-> uiStateToLoad.uiMiniEditorCollapsed]
            @@ (IF originalStructureToStore.defined
                THEN [originalStructure |-> originalStructureToStore]
                ELSE <<>>)
            @@ (IF originalControlValuesToStore.defined
                THEN [originalControlValues |-> originalControlValuesToStore]
                ELSE IF HasKeys(loadedValues)
                     THEN [originalControlValues |-> SomeValues(loadedValues)]
                     ELSE <<>>)
    IN  <<Call("setPromptUIState", prompt.id, updatedUIState),
          Call("setWorkingState",
               [currentPrompt |-> prompt, structure |-> normalizedStructure,
                starredControls |-> uiStateToLoad.starredControls,
                starredTextBoxes |-> uiStateToLoad.starredTextBoxes,
                uiGlobalControlValues |-> loadedValues,
                uiCollapsedByElementId |-> uiStateToLoad.uiCollapsedByElementId,
                uiMiniEditorCollapsed |-> uiStateToLoad.uiMiniEditorCollapsed],
               <<>>)>>

setCurrentPromptCalls(st, prompt, t) == FlushCalls(st, t) \o LoadCalls(st, prompt)

\* saveCurrentPrompt with an auto-save that is always added, never replaced
saveCurrentPromptCallsAdding(st, isAutoSave, t) ==
    IF st.currentPrompt = NoPrompt THEN <<>>
    ELSE
    LET newVersion ==
            [id |-> VerId(t), promptId |-> st.currentPrompt.id,
             createdAt |-> t, structure |-> st.structure,
             isAutoSave |-> isAutoSave]
    IN  IF isAutoSave
        THEN <<Call("addVersion", newVersion, <<>>)>>
        ELSE <<Call("addVersion", newVersion, <<>>),
               Call("updatePrompt", st.currentPrompt.id,
                    [currentVersion |-> newVersion.id,
                     versions |->
                        Append(st.currentPrompt.versions, newVersion.id)])>>

\* lines 786-825
saveCurrentPromptCalls(st, isAutoSave, t) ==
    IF st.currentPrompt = NoPrompt THEN <<>>
    ELSE
    LET newVersion ==
            [id |-> VerId(t), promptId |-> st.currentPrompt.id,
             createdAt |-> t, structure |-> st.structure,
             isAutoSave |-> isAutoSave]
        existingAutoSave == ExistingAutoSaveIndex(st, st.currentPrompt.id)
    IN  IF isAutoSave
        THEN IF existingAutoSave # 0
             THEN <<Call("updateVersion", st.versions[existingAutoSave].id,
                         [structure |-> st.structure, createdAt |-> t])>>
             ELSE <<Call("addVersion", newVersion, <<>>)>>
        ELSE <<Call("addVersion", newVersion, <<>>),
               Call("updatePrompt", st.currentPrompt.id,
                    [currentVersion |-> newVersion.id,
                     versions |->
                        Append(st.currentPrompt.versions, newVersion.id)])>>

\* lines 844-861: deleteVersion for every auto-save but the newest of each
\* promptId, the promptIds in the order they first occur in versions
RECURSIVE CleanupCallsFrom(_, _, _)
CleanupCallsFrom(st, i, seen) ==
    IF i > Len(st.versions) THEN <<>>
    ELSE
    LET promptId == st.versions[i].promptId
        autoSaves ==
            SortByCreatedAtDesc(SelectSeq(st.versions,
                LAMBDA v : v.promptId = promptId /\ v.isAutoSave = TRUE))
        toDelete == IF Len(autoSaves) > 1 THEN Tail(autoSaves) ELSE <<>>
    IN  IF promptId \in seen THEN CleanupCallsFrom(st, i + 1, seen)
        ELSE [j \in 1..Len(toDelete) |->
                Call("deleteVersion", toDelete[j].id, <<>>)]
             \o CleanupCallsFrom(st, i + 1, seen \cup {promptId})

cleanupOldAutoSavesCalls(st) == CleanupCallsFrom(st, 1, {})

\* lines 864-920
resetElementContentCalls(st, elementId) ==
    IF st.currentPrompt = NoPrompt THEN <<>>
    ELSE
    LET uiState == st.promptUIStates[st.currentPrompt.id]
        original == uiState.originalStructure.value
        originalElement == FindIndex(original, LAMBDA el : el.id = elementId)
    IN  IF ~(uiState.present /\ uiState.originalStructure.defined)
        THEN IF FindIndex(st.structure, LAMBDA el : el.id = elementId) # 0
             THEN <<Call("setPromptUIState", st.currentPrompt.id,
                         (IF uiState.present
                          THEN [starredControls |-> uiState.starredControls,
                                starredTextBoxes |-> uiState.starredTextBoxes,
                                uiCollapsedByElementId |->
                                    uiState.uiCollapsedByElementId,
                                uiMiniEditorCollapsed |->
                                    uiState.uiMiniEditorCollapsed,
                                uiGlobalControlValues |->
                                    uiState.uiGlobalControlValues,
                                modifiedStructure |-> uiState.modifiedStructure,
                                originalControlValues |->
                                    uiState.originalControlValues]
                          ELSE <<>>)
                         @@ [originalStructure |->
                                SomeStructure(st.structure)])>>
             ELSE <<>>
        ELSE IF originalElement = 0 THEN <<>>
             ELSE <<Call("setResetContent", elementId,
                         original[originalElement].content)>>

\* a reset that puts the whole baseline back
resetControlValueCallsRestoringAll(st, controlName) ==
    IF st.currentPrompt = NoPrompt THEN <<>>
    ELSE
    LET uiState == st.promptUIStates[st.currentPrompt.id]
    IN  IF ~(uiState.present /\ uiState.originalControlValues.defined)
        THEN <<>>
        ELSE <<Call("setResetControl", uiState.originalControlValues.value,
                    <<>>)>>

\* lines 922-962
resetControlValueCalls(st, controlName) ==
    IF st.currentPrompt = NoPrompt THEN <<>>
    ELSE
    LET uiState == st.promptUIStates[st.currentPrompt.id]
        originalValue == uiState.originalControlValues.value[controlName]
        updatedControlValues ==
            [st.uiGlobalControlValues EXCEPT ![controlName] = originalValue]
    IN  IF ~(uiState.present /\ uiState.originalControlValues.defined)
        THEN <<>>
        ELSE <<Call("setResetControl", updatedControlValues, <<>>)>>

\* arrayMove(structure, from, to) of the drag-and-drop reorder
ArrayMove(s, from, to) ==
    LET rest == RemoveAt(s, from)
    IN  SubSeq(rest, 1, to - 1) \o <<s[from]>> \o SubSeq(rest, to, Len(rest))

(***************************************************************************)
(* The element output resolver (utils/elementOutput.ts) and the sanitizer  *)
(* (utils/textSanitizer.ts).  A string is the sequence of its characters;  *)
(* the placeholder {{text:k:x}} is kept as one item of the sequence.       *)
(***************************************************************************)
MaxLen == 3

Placeholder == "{{text:k:x}}"
TextChars == {"a", " ", "\n", "\r", Placeholder}
Texts == UNION {[1..n -> TextChars] : n \in 0..MaxLen}

\* an optional string: undefined, or a string
NoText == [defined |-> FALSE, value |-> <<>>]
SomeText(text) == [defined |-> TRUE, value |-> text]

\* text.trim().length === 0
IsBlank(text) == \A i \in 1..Len(text) : text[i] \in {" ", "\n", "\r"}

\* content.replace(/\r\n/g, '\n')
RECURSIVE NormalizeNewlines(_)
NormalizeNewlines(text) ==
    IF Len(text) < 2 THEN text
    ELSE IF text[1] = "\r" /\ text[2] = "\n"
         THEN <<"\n">> \o NormalizeNewlines(Tail(Tail(text)))
         ELSE <<text[1]>> \o NormalizeNewlines(Tail(text))

\* normalized.split('\n')
RECURSIVE SplitLines(_)
SplitLines(text) ==
    LET i == FindIndex(text, LAMBDA c : c = "\n")
    IN  IF i = 0 THEN <<text>>
        ELSE <<SubSeq(text, 1, i - 1)>>
                \o SplitLines(SubSeq(text, i + 1, Len(text)))

\* a right trim that takes one whitespace character only
TrimEndOnce(line) ==
    IF line # <<>> /\ line[Len(line)] \in {" ", "\n", "\r"}
    THEN SubSeq(line, 1, Len(line) - 1)
    ELSE line

\* rawLine.replace(/\s+$/g, '')
RECURSIVE TrimEnd(_)
TrimEnd(line) ==
    IF line # <<>> /\ line[Len(line)] \in {" ", "\n", "\r"}
    THEN TrimEnd(SubSeq(line, 1, Len(line) - 1))
    ELSE line

\* the for loop of sanitizeElementContent over the lines not yet read
RECURSIVE CollapseBlankLines(_, _, _)
CollapseBlankLines(lines, result, previousBlank) ==
    IF lines = <<>> THEN result
    ELSE LET line == TrimEnd(Head(lines))
         IN  IF IsBlank(line)
             THEN IF ~previousBlank /\ Len(result) > 0
                  THEN CollapseBlankLines(Tail(lines), Append(result, <<>>), TRUE)
                  ELSE CollapseBlankLines(Tail(lines), result, previousBlank)
             ELSE CollapseBlankLines(Tail(lines), Append(result, line), FALSE)

\* the while loop of sanitizeElementContent
RECURSIVE PopBlankLines(_)
PopBlankLines(result) ==
    IF result # <<>> /\ IsBlank(result[Len(result)])
    THEN PopBlankLines(SubSeq(result, 1, Len(result) - 1))
    ELSE result

\* parts.join(separator)
RECURSIVE Join(_, _)
Join(parts, separator) ==
    IF parts = <<>> THEN <<>>
    ELSE IF Len(parts) = 1 THEN parts[1]
    ELSE parts[1] \o separator \o Join(Tail(parts), separator)

\* a sanitizer that leaves the blank line at the end
sanitizeElementContentKeepingEnd(content) ==
    IF content = <<>> THEN <<>>
    ELSE Join(CollapseBlankLines(SplitLines(NormalizeNewlines(content)),
                                 <<>>, FALSE),
              <<"\n">>)

sanitizeElementContent(content) ==
    IF content = <<>> THEN <<>>
    ELSE Join(PopBlankLines(
                CollapseBlankLines(SplitLines(NormalizeNewlines(content)),
                                   <<>>, FALSE)),
              <<"\n">>)

\* parseControlSyntax(text): one text control per {{text:NAME:DEFAULT}}
parseControlSyntax(text) ==
    {[type |-> "text", name |-> "k", defaultValue |-> <<"x">>,
      startIndex |-> i] : i \in {j \in 1..Len(text) : text[j] = Placeholder}}

\* renderPrompt(text, controls, values): each control's span replaced by
\* values[name] if present and by the control's default otherwise
renderPrompt(text, controls, values) ==
    Join([i \in 1..Len(text) |->
            IF \E control \in controls : control.startIndex = i
            THEN LET control ==
                        CHOOSE c \in controls : c.startIndex = i
                 IN  IF values[control.name].defined
                     THEN values[control.name].value
                     ELSE control.defaultValue
            ELSE <<text[i]>>],
         <<>>)

\* useEditorStore.getState().getVariable(name)
getVariable(variables, name) == variables[name]

\* getProcessedElementContent with the test on element.enabled left out
getProcessedElementContentOfDisabled(element, previewMode, globalControlValues, variables) ==
    LET variableValue ==
            IF Has(element, "linkedVariable")
            THEN getVariable(variables, element.linkedVariable) ELSE NoText
        contentToProcess ==
            IF variableValue.defined THEN variableValue.value
            ELSE element.content
        baseContent ==
            IF previewMode = "raw" THEN contentToProcess
            ELSE renderPrompt(contentToProcess,
                              parseControlSyntax(contentToProcess),
                              globalControlValues)
        shouldSanitize ==
            /\ IF Has(element, "autoRemoveEmptyLines")
               THEN element.autoRemoveEmptyLines ELSE TRUE
            /\ previewMode = "clean"
        processed ==
            IF shouldSanitize THEN sanitizeElementContent(baseContent)
            ELSE baseContent
    IN  IF IsBlank(processed) THEN <<>> ELSE processed

\* getProcessedElementContent rendering the controls in raw mode as well
getProcessedElementContentRenderingRaw(element, previewMode, globalControlValues, variables) ==
    IF ~element.enabled THEN <<>>
    ELSE
    LET variableValue ==
            IF Has(element, "linkedVariable")
            THEN getVariable(variables, element.linkedVariable) ELSE NoText
        contentToProcess ==
            IF variableValue.defined THEN variableValue.value
            ELSE element.content
        baseContent ==
            renderPrompt(contentToProcess,
                         parseControlSyntax(contentToProcess),
                         globalControlValues)
        shouldSanitize ==
            /\ IF Has(element, "autoRemoveEmptyLines")
               THEN element.autoRemoveEmptyLines ELSE TRUE
            /\ previewMode = "clean"
        processed ==
            IF shouldSanitize THEN sanitizeElementContent(baseContent)
            ELSE baseContent
    IN  IF IsBlank(processed) THEN <<>> ELSE processed

\* getProcessedElementContent sanitizing whatever autoRemoveEmptyLines is
getProcessedElementContentAlwaysSanitizing(element, previewMode, globalControlValues, variables) ==
    IF ~element.enabled THEN <<>>
    ELSE
    LET variableValue ==
            IF Has(element, "linkedVariable")
            THEN getVariable(variables, element.linkedVariable) ELSE NoText
        contentToProcess ==
            IF variableValue.defined THEN variableValue.value
            ELSE element.content
        baseContent ==
            IF previewMode = "raw" THEN contentToProcess
            ELSE renderPrompt(contentToProcess,
                              parseControlSyntax(contentToProcess),
                              globalControlValues)
        shouldSanitize == previewMode = "clean"
        processed ==
            IF shouldSanitize THEN sanitizeElementContent(baseContent)
            ELSE baseContent
    IN  IF IsBlank(processed) THEN <<>> ELSE processed

\* getProcessedElementContent(element, previewMode, globalControlValues);
\* variables is the variable map of the store it reads
getProcessedElementContent(element, previewMode, globalControlValues, variables) ==
    IF ~element.enabled THEN <<>>
    ELSE
    LET variableValue ==
            IF Has(element, "linkedVariable")
            THEN getVariable(variables, element.linkedVariable) ELSE NoText
        contentToProcess ==
            IF variableValue.defined THEN variableValue.value
            ELSE element.content
        baseContent ==
            IF previewMode = "raw" THEN contentToProcess
            ELSE renderPrompt(contentToProcess,
                              parseControlSyntax(contentToProcess),
                              globalControlValues)
        shouldSanitize ==
            /\ IF Has(element, "autoRemoveEmptyLines")
               THEN element.autoRemoveEmptyLines ELSE TRUE
            /\ previewMode = "clean"
        processed ==
            IF shouldSanitize THEN sanitizeElementContent(baseContent)
            ELSE baseContent
    IN  IF IsBlank(processed) THEN <<>> ELSE processed

\* no call of the resolver
NoPreview ==
    [called |-> FALSE,
     element |-> [id |-> "el-1", enabled |-> TRUE, content |-> <<>>],
     previewMode |-> "clean",
     globalControlValues |-> [n \in ControlNames |-> NoText],
     variables |-> [n \in {"#v"} |-> NoText],
     temporarilyUnlinked |-> FALSE,
     result |-> <<>>]

(***************************************************************************)
(* The import (analyzeImportData and applyImportResolutions).  An id is a  *)
(* sequence of strings, so that `prompt_${timestamp}_${id}` is the id with *)
(* two items put before it; '' is the empty sequence.  A payload is a      *)
(* record of the keys it has; a value that should be an array is           *)
(* [array, items].  Of a version only the fields the import reads are      *)
(* kept (not its structure), of a conflict not its display name.           *)
(***************************************************************************)
\* analyzeImportData that does not look for conflicts of versions
analyzeImportDataWithoutVersionConflicts(data, existingProjects, existingPrompts, existingVersions, t) ==
    LET dataVersions == IF Has(data, "versions") THEN data.versions ELSE <<>>
        \* data.prompts || [], read as an array
        dataPrompts ==
            IF Has(data, "prompts") THEN data.prompts.items ELSE <<>>
        structureVersion ==
            [id |-> <<"ver", ToString(t), "import">>,
             promptId |-> data.prompt.id,
             createdAt |-> IF Has(data, "exportedAt") THEN data.exportedAt ELSE t,
             isAutoSave |-> FALSE]
        extracted ==
            IF Has(data, "project") /\ ~Has(data, "projects")
            THEN [type |-> "project", projects |-> <<data.project>>,
                  prompts |-> dataPrompts, versions |-> dataVersions]
            ELSE IF Has(data, "projects") /\ data.projects.array
            THEN [type |-> IF Has(data, "uiState") THEN "workspace"
                           ELSE IF Len(data.projects.items) = 1 THEN "project"
                           ELSE "bulk-projects",
                  projects |-> data.projects.items,
                  prompts |-> dataPrompts, versions |-> dataVersions]
            ELSE IF Has(data, "prompts") /\ data.prompts.array
            THEN [type |-> IF Len(data.prompts.items) = 1 THEN "prompt"
                           ELSE "bulk-prompts",
                  projects |-> <<>>,
                  prompts |-> data.prompts.items, versions |-> dataVersions]
            ELSE IF Has(data, "prompt")
            THEN [type |-> "prompt", projects |-> <<>>,
                  prompts |-> <<data.prompt>>,
                  versions |->
                    IF dataVersions # <<>> THEN dataVersions
                    ELSE IF Has(data, "structure") /\ data.structure.array
                    THEN <<structureVersion>>
                    ELSE IF Has(data, "currentStructure")
                            /\ data.currentStructure.array
                    THEN <<structureVersion>>
                    ELSE <<>>]
            ELSE [type |-> "prompt", projects |-> <<>>, prompts |-> <<>>,
                  versions |-> <<>>]
        conflictsOf(items, existing, type) ==
            LET found == SelectSeq(items,
                            LAMBDA item : \E i \in 1..Len(existing) :
                                                existing[i].id = item.id)
            IN  [i \in 1..Len(found) |->
                    [id |-> found[i].id, type |-> type,
                     resolution |-> "overwrite"]]
    IN  [type |-> extracted.type,
         projects |-> extracted.projects,
         prompts |-> extracted.prompts,
         versions |-> extracted.versions,
         conflicts |->
            conflictsOf(extracted.projects, existingProjects, "project")
            \o conflictsOf(extracted.prompts, existingPrompts, "prompt")
]

\* analyzeImportData that takes a project key whether or not there is a
\* projects key
analyzeImportDataProjectKeyFirst(data, existingProjects, existingPrompts, existingVersions, t) ==
    LET dataVersions == IF Has(data, "versions") THEN data.versions ELSE <<>>
        \* data.prompts || [], read as an array
        dataPrompts ==
            IF Has(data, "prompts") THEN data.prompts.items ELSE <<>>
        structureVersion ==
            [id |-> <<"ver", ToString(t), "import">>,
             promptId |-> data.prompt.id,
             createdAt |-> IF Has(data, "exportedAt") THEN data.exportedAt ELSE t,
             isAutoSave |-> FALSE]
        extracted ==
            IF Has(data, "project")
            THEN [type |-> "project", projects |-> <<data.project>>,
                  prompts |-> dataPrompts, versions |-> dataVersions]
            ELSE IF Has(data, "projects") /\ data.projects.array
            THEN [type |-> IF Has(data, "uiState") THEN "workspace"
                           ELSE IF Len(data.projects.items) = 1 THEN "project"
                           ELSE "bulk-projects",
                  projects |-> data.projects.items,
                  prompts |-> dataPrompts, versions |-> dataVersions]
            ELSE IF Has(data, "prompts") /\ data.prompts.array
            THEN [type |-> IF Len(data.prompts.items) = 1 THEN "prompt"
                           ELSE "bulk-prompts",
                  projects |-> <<>>,
                  prompts |-> data.prompts.items, versions |-> dataVersions]
            ELSE IF Has(data, "prompt")
            THEN [type |-> "prompt", projects |-> <<>>,
                  prompts |-> <<data.prompt>>,
                  versions |->
                    IF dataVersions # <<>> THEN dataVersions
                    ELSE IF Has(data, "structure") /\ data.structure.array
                    THEN <<structureVersion>>
                    ELSE IF Has(data, "currentStructure")
                            /\ data.currentStructure.array
                    THEN <<structureVersion>>
                    ELSE <<>>]
            ELSE [type |-> "prompt", projects |-> <<>>, prompts |-> <<>>,
                  versions |-> <<>>]
        conflictsOf(items, existing, type) ==
            LET found == SelectSeq(items,
                            LAMBDA item : \E i \in 1..Len(existing) :
                                                existing[i].id = item.id)
            IN  [i \in 1..Len(found) |->
                    [id |-> found[i].id, type |-> type,
                     resolution |-> "overwrite"]]
    IN  [type |-> extracted.type,
         projects |-> extracted.projects,
         prompts |-> extracted.prompts,
         versions |-> extracted.versions,
         conflicts |->
            conflictsOf(extracted.projects, existingProjects, "project")
            \o conflictsOf(extracted.prompts, existingPrompts, "prompt")
            \o conflictsOf(extracted.versions, existingVersions, "version")]

analyzeImportData(data, existingProjects, existingPrompts, existingVersions, t) ==
    LET dataVersions == IF Has(data, "versions") THEN data.versions ELSE <<>>
        \* data.prompts || [], read as an array
        dataPrompts ==
            IF Has(data, "prompts") THEN data.prompts.items ELSE <<>>
        structureVersion ==
            [id |-> <<"ver", ToString(t), "import">>,
             promptId |-> data.prompt.id,
             createdAt |-> IF Has(data, "exportedAt") THEN data.exportedAt ELSE t,
             isAutoSave |-> FALSE]
        extracted ==
            IF Has(data, "project") /\ ~Has(data, "projects")
            THEN [type |-> "project", projects |-> <<data.project>>,
                  prompts |-> dataPrompts, versions |-> dataVersions]
            ELSE IF Has(data, "projects") /\ data.projects.array
            THEN [type |-> IF Has(data, "uiState") THEN "workspace"
                           ELSE IF Len(data.projects.items) = 1 THEN "project"
                           ELSE "bulk-projects",
                  projects |-> data.projects.items,
                  prompts |-> dataPrompts, versions |-> dataVersions]
            ELSE IF Has(data, "prompts") /\ data.prompts.array
            THEN [type |-> IF Len(data.prompts.items) = 1 THEN "prompt"
                           ELSE "bulk-prompts",
                  projects |-> <<>>,
                  prompts |-> data.prompts.items, versions |-> dataVersions]
            ELSE IF Has(data, "prompt")
            THEN [type |-> "prompt", projects |-> <<>>,
                  prompts |-> <<data.prompt>>,
                  versions |->
                    IF dataVersions # <<>> THEN dataVersions
                    ELSE IF Has(data, "structure") /\ data.structure.array
                    THEN <<structureVersion>>
                    ELSE IF Has(data, "currentStructure")
                            /\ data.currentStructure.array
                    THEN <<structureVersion>>
                    ELSE <<>>]
            ELSE [type |-> "prompt", projects |-> <<>>, prompts |-> <<>>,
                  versions |-> <<>>]
        conflictsOf(items, existing, type) ==
            LET found == SelectSeq(items,
                            LAMBDA item : \E i \in 1..Len(existing) :
                                                existing[i].id = item.id)
            IN  [i \in 1..Len(found) |->
                    [id |-> found[i].id, type |-> type,
                     resolution |-> "overwrite"]]
    IN  [type |-> extracted.type,
         projects |-> extracted.projects,
         prompts |-> extracted.prompts,
         versions |-> extracted.versions,
         conflicts |->
            conflictsOf(extracted.projects, existingProjects, "project")
            \o conflictsOf(extracted.prompts, existingPrompts, "prompt")
            \o conflictsOf(extracted.versions, existingVersions, "version")]

\* applyImportResolutions that gives a duplicated project or prompt no new id
applyImportResolutionsKeepingIds(analysis, resolutions, t) ==
    LET \* resolutionMap.get(id)?.resolution, "none" without an entry
        resolutionOf(id) ==
            LET entries == {i \in 1..Len(resolutions) : resolutions[i].id = id}
            IN  IF entries = {} THEN "none"
                ELSE resolutions[CHOOSE i \in entries :
                                    \A j \in entries : j <= i].resolution
        resolved(items, prefix) ==
            LET kept == SelectSeq(items,
                            LAMBDA item : resolutionOf(item.id) # "skip")
            IN  [i \in 1..Len(kept) |->
                    IF FALSE
                    THEN [kept[i] EXCEPT
                            !.id = <<prefix, ToString(t)>> \o kept[i].id]
                    ELSE kept[i]]
        projects == resolved(analysis.projects, "proj")
        prompts == resolved(analysis.prompts, "prompt")
        \* the versions pushed while a prompt is duplicated
        copiesFor(prompt) ==
            IF resolutionOf(prompt.id) # "duplicate" THEN <<>>
            ELSE LET copied ==
                        SelectSeq(analysis.versions,
                            LAMBDA v : /\ v.promptId = prompt.id
                                       /\ resolutionOf(v.id) \notin {"none", "skip"})
                 IN  [k \in 1..Len(copied) |->
                        [copied[k] EXCEPT
                            !.id = <<"ver", ToString(t), ToString(k - 1)>>
                                        \o copied[k].id,
                            !.promptId = <<"prompt", ToString(t)>> \o prompt.id]]
        copies ==
            Join([i \in 1..Len(analysis.prompts) |->
                        copiesFor(analysis.prompts[i])], <<>>)
        \* the loop over analysis.versions, after its first i versions
        added[i \in 0..Len(analysis.versions)] ==
            IF i = 0 THEN copies
            ELSE LET version == analysis.versions[i]
                     alreadyAdded ==
                        \E k \in 1..Len(added[i - 1]) :
                            added[i - 1][k].id = version.id
                 IN  IF resolutionOf(version.id) = "skip" \/ alreadyAdded
                     THEN added[i - 1]
                     ELSE IF resolutionOf(version.id) = "duplicate"
                     THEN Append(added[i - 1],
                            [version EXCEPT
                                !.id = <<"ver", ToString(t)>> \o version.id])
                     ELSE Append(added[i - 1], version)
        versions == added[Len(analysis.versions)]
        withMetadata(prompt) ==
            LET promptVersions ==
                    SelectSeq(versions, LAMBDA v : v.promptId = prompt.id)
                sortedVersions == SortByCreatedAtDesc(promptVersions)
                manual == SelectSeq(promptVersions, LAMBDA v : ~v.isAutoSave)
                sortedManual == SelectSeq(sortedVersions, LAMBDA v : ~v.isAutoSave)
                currentVersion ==
                    IF sortedManual # <<>> /\ sortedManual[1].id # <<>>
                    THEN sortedManual[1].id
                    ELSE sortedVersions[1].id
            IN  IF promptVersions # <<>>
                THEN [prompt EXCEPT
                        !.versions =
                            IF manual # <<>>
                            THEN [k \in 1..Len(manual) |-> manual[k].id]
                            ELSE IF currentVersion # <<>>
                                 THEN <<currentVersion>> ELSE <<>>,
                        !.currentVersion =
                            IF currentVersion # <<>> THEN currentVersion
                            ELSE prompt.currentVersion]
                ELSE prompt
    IN  [projects |-> projects,
         prompts |-> [i \in 1..Len(prompts) |-> withMetadata(prompts[i])],
         versions |-> versions]

applyImportResolutions(analysis, resolutions, t) ==
    LET \* resolutionMap.get(id)?.resolution, "none" without an entry
        resolutionOf(id) ==
            LET entries == {i \in 1..Len(resolutions) : resolutions[i].id = id}
            IN  IF entries = {} THEN "none"
                ELSE resolutions[CHOOSE i \in entries :
                                    \A j \in entries : j <= i].resolution
        resolved(items, prefix) ==
            LET kept == SelectSeq(items,
                            LAMBDA item : resolutionOf(item.id) # "skip")
            IN  [i \in 1..Len(kept) |->
                    IF resolutionOf(kept[i].id) = "duplicate"
                    THEN [kept[i] EXCEPT
                            !.id = <<prefix, ToString(t)>> \o kept[i].id]
                    ELSE kept[i]]
        projects == resolved(analysis.projects, "proj")
        prompts == resolved(analysis.prompts, "prompt")
        \* the versions pushed while a prompt is duplicated
        copiesFor(prompt) ==
            IF resolutionOf(prompt.id) # "duplicate" THEN <<>>
            ELSE LET copied ==
                        SelectSeq(analysis.versions,
                            LAMBDA v : /\ v.promptId = prompt.id
                                       /\ resolutionOf(v.id) \notin {"none", "skip"})
                 IN  [k \in 1..Len(copied) |->
                        [copied[k] EXCEPT
                            !.id = <<"ver", ToString(t), ToString(k - 1)>>
                                        \o copied[k].id,
                            !.promptId = <<"prompt", ToString(t)>> \o prompt.id]]
        copies ==
            Join([i \in 1..Len(analysis.prompts) |->
                        copiesFor(analysis.prompts[i])], <<>>)
        \* the loop over analysis.versions, after its first i versions
        added[i \in 0..Len(analysis.versions)] ==
            IF i = 0 THEN copies
            ELSE LET version == analysis.versions[i]
                     alreadyAdded ==
                        \E k \in 1..Len(added[i - 1]) :
                            added[i - 1][k].id = version.id
                 IN  IF resolutionOf(version.id) = "skip" \/ alreadyAdded
                     THEN added[i - 1]
                     ELSE IF resolutionOf(version.id) = "duplicate"
                     THEN Append(added[i - 1],
                            [version EXCEPT
                                !.id = <<"ver", ToString(t)>> \o version.id])
                     ELSE Append(added[i - 1], version)
        versions == added[Len(analysis.versions)]
        withMetadata(prompt) ==
            LET promptVersions ==
                    SelectSeq(versions, LAMBDA v : v.promptId = prompt.id)
                sortedVersions == SortByCreatedAtDesc(promptVersions)
                manual == SelectSeq(promptVersions, LAMBDA v : ~v.isAutoSave)
                sortedManual == SelectSeq(sortedVersions, LAMBDA v : ~v.isAutoSave)
                currentVersion ==
                    IF sortedManual # <<>> /\ sortedManual[1].id # <<>>
                    THEN sortedManual[1].id
                    ELSE sortedVersions[1].id
            IN  IF promptVersions # <<>>
                THEN [prompt EXCEPT
                        !.versions =
                            IF manual # <<>>
                            THEN [k \in 1..Len(manual) |-> manual[k].id]
                            ELSE IF currentVersion # <<>>
                                 THEN <<currentVersion>> ELSE <<>>,
                        !.currentVersion =
                            IF currentVersion # <<>> THEN currentVersion
                            ELSE prompt.currentVersion]
                ELSE prompt
    IN  [projects |-> projects,
         prompts |-> [i \in 1..Len(prompts) |-> withMetadata(prompts[i])],
         versions |-> versions]

(***************************************************************************)
(* The state machine: one action per handler, run to completion            *)
(***************************************************************************)
\* The store is persisted (lines 973-999) and rehydrated on construction:
\* the state after construction is the default state, or the state an
\* earlier session left.  PersistedStore is the store left by a session
\* that created prompt p1, opened it, added an element, saved it manually
\* and duplicated it as p2 (handleDuplicatePrompt); EditedStore the store
\* left by a session that went on to open p2 a millisecond later and to
\* edit the element there.
BlankPrompt(id) == [id |-> id, currentVersion |-> NoVersion, versions |-> <<>>]

\* handleDuplicatePrompt: a new id, versions and currentVersion copied
DuplicatePrompt(prompt, id) ==
    [id |-> id, currentVersion |-> prompt.currentVersion,
     versions |-> prompt.versions]

\* Stores an earlier session left in localStorage, each the outcome of the
\* handlers run on the one before: a prompt created, opened, given an
\* element, saved by hand and duplicated ...
CreatedStore == addPrompt(InitialStore, BlankPrompt("p1"))

OpenedStore ==
    CHOOSE result \in
        {Run(st, setCurrentPromptCalls(st, st.prompts[1], 0)) :
            st \in {CreatedStore}} : TRUE

GrownStore ==
    CHOOSE result \in
        {addStructuralElement(st,
            [id |-> <<"test-", 1>>, name |-> "New Element",
             enabled |-> TRUE, content |-> "plain"], 0) :
            st \in {OpenedStore}} : TRUE

SavedStore ==
    CHOOSE result \in
        {Run(st, saveCurrentPromptCalls(st, FALSE, 0)) :
            st \in {GrownStore}} : TRUE

PersistedStore ==
    CHOOSE result \in
        {addPrompt(st, DuplicatePrompt(st.prompts[1], "p2")) :
            st \in {SavedStore}} : TRUE

\* ... and then the duplicate opened and its element edited
SwitchedStore ==
    CHOOSE result \in
        {Run(st, setCurrentPromptCalls(st, st.prompts[2], 1)) :
            st \in {PersistedStore}} : TRUE

EditedStore ==
    CHOOSE result \in
        {updateStructuralElement(st, <<"test-", 1>>,
                                 [content |-> "{{text:k:x}}"]) :
            st \in {SwitchedStore}} : TRUE

\* ... or, instead, an export holding two auto-saves of the first prompt
\* imported (handleImportConfirm adds every version the store has no id for)
ImportedVersion(n, content) ==
    [id |-> <<"ver_import", n>>, promptId |-> "p1", createdAt |-> n,
     structure |-> <<[id |-> <<"test-", 1>>, name |-> "New Element",
                      enabled |-> TRUE, content |-> content]>>,
     isAutoSave |-> TRUE]

ImportedStore ==
    Run(PersistedStore,
        <<Call("addVersion", ImportedVersion(0, "plain"), <<>>),
          Call("addVersion", ImportedVersion(1, "{{text:k:x}}"), <<>>)>>)

\* ... or the first prompt saved by hand and auto-saved within one
\* millisecond (both versions are ver_<that millisecond>), and a newer
\* auto-save of it imported afterwards
AutoSavedStore ==
    CHOOSE result \in
        {Run(st, saveCurrentPromptCalls(st, TRUE, 0)) :
            st \in {SavedStore}} : TRUE

CollidedStore ==
    Run(AutoSavedStore,
        <<Call("addVersion", ImportedVersion(1, "{{text:k:x}}"), <<>>)>>)

\* the clock when the session starts: later than the persisted versions
SessionStart == 2

Init ==
    /\ \/ /\ store = InitialStore
          /\ firstLoad = [p \in PromptIds |-> NoStructure]
          /\ imported = FALSE
       \/ /\ store = PersistedStore
          /\ firstLoad = [p \in PromptIds |->
                            IF p = "p1" THEN SomeStructure(<<>>) ELSE NoStructure]
          /\ imported = FALSE
       \/ /\ store = ImportedStore
          /\ firstLoad = [p \in PromptIds |->
                            IF p = "p1" THEN SomeStructure(<<>>) ELSE NoStructure]
          /\ imported = TRUE
       \/ /\ store = CollidedStore
          /\ firstLoad = [p \in PromptIds |->
                            IF p = "p1" THEN SomeStructure(<<>>) ELSE NoStructure]
          /\ imported = TRUE
       \/ /\ store = EditedStore
          /\ imported = FALSE
          /\ firstLoad = [p \in PromptIds |->
                            IF p = "p1" THEN SomeStructure(<<>>)
                            ELSE SomeStructure(SwitchedStore.structure)]
    /\ now = SessionStart
    /\ pending = <<>>
    /\ snapshot = InitialStore
    /\ steps = 0
    /\ autoSaveCalled = {}
    /\ preview = NoPreview
    /\ importJob = [stage |-> "none"]

\* the element ids a caller names
TargetIds == ElementIds

\* A handler run to completion.  A call that leaves the store as it is is a
\* stuttering step of the machine and takes nothing from the step budget.
Atomic(calls) ==
    /\ pending = <<>>
    /\ steps < MaxSteps
    /\ \E after \in {Run(store, calls)} :
            /\ Len(after.versions) <= MaxVersions
            /\ store' = after
    /\ pending' = <<>>
    /\ steps' = steps + 1
    /\ UNCHANGED <<snapshot, imported, preview, importJob>>

Changes(calls) == Run(store, calls) # store

\* Date.now() in a handler: the millisecond of the last reading, or a later
\* one (how much later makes no difference to the ids and their order)
ClockReadings == {t \in {now, now + 1} : t <= SessionStart + MaxClock}

\* handleCreatePrompt, handleDuplicatePrompt: a prompt under an unused id
AddPrompt(prompt) ==
    /\ \A i \in 1..Len(store.prompts) : store.prompts[i].id # prompt.id
    /\ Atomic(<<Call("addPrompt", prompt, <<>>)>>)
    /\ UNCHANGED <<now, autoSaveCalled, firstLoad>>

SetCurrentPrompt(prompt, t) ==
    /\ Atomic(setCurrentPromptCalls(store, prompt, t))
    /\ \/ Changes(setCurrentPromptCalls(store, prompt, t))
       \/ prompt # NoPrompt /\ ~firstLoad[prompt.id].defined
    /\ now' = t
    /\ firstLoad' =
        IF prompt # NoPrompt /\ ~firstLoad[prompt.id].defined
        THEN [firstLoad EXCEPT ![prompt.id] = SomeStructure(store'.structure)]
        ELSE firstLoad
    /\ UNCHANGED autoSaveCalled

SaveCurrentPrompt(isAutoSave, t) ==
    /\ Atomic(saveCurrentPromptCalls(store, isAutoSave, t))
    /\ now' = t
    /\ \/ Changes(saveCurrentPromptCalls(store, isAutoSave, t))
       \/ /\ isAutoSave
          /\ store.currentPrompt # NoPrompt
          /\ store.currentPrompt.id \notin autoSaveCalled
    /\ autoSaveCalled' =
        IF isAutoSave /\ store.currentPrompt # NoPrompt
        THEN autoSaveCalled \cup {store.currentPrompt.id} ELSE autoSaveCalled
    /\ UNCHANGED firstLoad

UpdateStructuralElement(id, updates) ==
    /\ Atomic(<<Call("updateStructuralElement", id, updates)>>)
    /\ Changes(<<Call("updateStructuralElement", id, updates)>>)
    /\ UNCHANGED <<now, autoSaveCalled, firstLoad>>

AddStructuralElement(element) ==
    /\ Len(store.structure) < MaxElements
    /\ Atomic(<<Call("addStructuralElement", element, now)>>)
    /\ UNCHANGED <<now, autoSaveCalled, firstLoad>>

RemoveStructuralElement(id) ==
    /\ Atomic(<<Call("removeStructuralElement", id, <<>>)>>)
    /\ Changes(<<Call("removeStructuralElement", id, <<>>)>>)
    /\ UNCHANGED <<now, autoSaveCalled, firstLoad>>

ToggleStructuralElement(id) ==
    /\ Atomic(<<Call("toggleStructuralElement", id, <<>>)>>)
    /\ Changes(<<Call("toggleStructuralElement", id, <<>>)>>)
    /\ UNCHANGED <<now, autoSaveCalled, firstLoad>>

UpdateStructure(from, to) ==
    /\ from # to
    /\ Atomic(<<Call("updateStructure",
                     ArrayMove(store.structure, from, to), <<>>)>>)
    /\ ArrayMove(store.structure, from, to) # store.structure
    /\ UNCHANGED <<now, autoSaveCalled, firstLoad>>

SetUiGlobalControlValues(values) ==
    /\ Atomic(<<Call("setUiGlobalControlValues", values, <<>>)>>)
    /\ Changes(<<Call("setUiGlobalControlValues", values, <<>>)>>)
    /\ UNCHANGED <<now, autoSaveCalled, firstLoad>>

ResetElementContent(elementId) ==
    /\ Atomic(resetElementContentCalls(store, elementId))
    /\ Changes(resetElementContentCalls(store, elementId))
    /\ UNCHANGED <<now, autoSaveCalled, firstLoad>>

ResetControlValue(controlName) ==
    /\ Atomic(resetControlValueCalls(store, controlName))
    /\ Changes(resetControlValueCalls(store, controlName))
    /\ UNCHANGED <<now, autoSaveCalled, firstLoad>>

CleanupOldAutoSaves ==
    /\ Atomic(cleanupOldAutoSavesCalls(store))
    /\ Changes(cleanupOldAutoSavesCalls(store))
    /\ UNCHANGED <<now, autoSaveCalled, firstLoad>>

\* the prompts the callers pass to setCurrentPrompt: those of the list
OpenablePrompts == {store.prompts[i] : i \in 1..Len(store.prompts)}

NewElements ==
    {[id |-> id, name |-> "New Element", enabled |-> TRUE, content |-> "plain"] :
        id \in ElementIds}

Next ==
    \/ \E id \in PromptIds : AddPrompt(BlankPrompt(id))
    \/ \E id \in PromptIds, i \in 1..Len(store.prompts) :
            AddPrompt(DuplicatePrompt(store.prompts[i], id))
    \/ \E prompt \in OpenablePrompts, t \in ClockReadings :
            SetCurrentPrompt(prompt, t)
    \/ \E isAutoSave \in BOOLEAN, t \in ClockReadings :
            SaveCurrentPrompt(isAutoSave, t)
    \/ \E id \in TargetIds, content \in Contents :
            UpdateStructuralElement(id, [content |-> content])
    \/ \E element \in NewElements : AddStructuralElement(element)
    \/ \E id \in TargetIds : RemoveStructuralElement(id)
    \/ \E id \in TargetIds : ToggleStructuralElement(id)
    \/ \E from, to \in 1..Len(store.structure) : UpdateStructure(from, to)
    \/ \E value \in UserValues \cup {Absent} :
            SetUiGlobalControlValues(
                [n \in ControlNames |-> IF n = "k" THEN value ELSE Absent])
    \/ \E id \in TargetIds : ResetElementContent(id)
    \/ \E name \in ControlNames : ResetControlValue(name)
    \/ CleanupOldAutoSaves

Spec == Init /\ [][Next]_vars

(***************************************************************************)
(* The handlers that write the working UI state: each is one set call.     *)
(***************************************************************************)
SetUi(call) ==
    /\ Atomic(<<call>>)
    /\ Changes(<<call>>)
    /\ UNCHANGED <<now, autoSaveCalled, firstLoad>>

SpecUI ==
    /\ Init
    /\ [][\/ \E prompt \in OpenablePrompts : SetCurrentPrompt(prompt, now)
          \/ \E values \in [ControlNames -> UserValues \cup {Absent}] :
                SetUiGlobalControlValues(values)
          \/ \E id \in ElementIds, collapsed \in {"true", "false"} :
                SetUi(Call("setUiCollapsedForElement", id, collapsed))
          \/ \E collapsed \in [ElementIds -> {"true", Absent}] :
                SetUi(Call("setUiCollapsedByElementId", collapsed, <<>>))
          \/ \E id \in ElementIds, collapsed \in {"true", "false"} :
                SetUi(Call("setUiMiniEditorCollapsed", id, collapsed))
          \/ \E id \in ElementIds :
                SetUi(Call("toggleStarControl", id, "k"))
          \/ \E id \in ElementIds :
                SetUi(Call("toggleStarTextBox", id, <<>>))
          \/ \E name \in ControlNames : ResetControlValue(name)
          \/ \E id \in TargetIds, content \in Contents :
                UpdateStructuralElement(id, [content |-> content])]_vars

(***************************************************************************)
(* The same handlers as their subscribers see them: zustand notifies the   *)
(* subscribers (and the persist middleware writes the store) after every   *)
(* set call, so the store between two set calls of a handler is a state    *)
(* a reader observes.  Begin dispatches a handler, ApplySet runs its next  *)
(* set call.                                                               *)
(***************************************************************************)
Begin(calls, t) ==
    /\ pending = <<>>
    /\ steps < MaxSteps
    /\ calls # <<>>
    /\ Len(Run(store, calls).versions) <= MaxVersions
    /\ pending' = calls
    /\ snapshot' = store
    /\ now' = t
    /\ steps' = steps + 1
    /\ UNCHANGED <<store, autoSaveCalled, imported, firstLoad, preview,
                   importJob>>

BeginSetCurrentPrompt(prompt, t) == Begin(setCurrentPromptCalls(store, prompt, t), t)

BeginSaveCurrentPrompt(isAutoSave, t) ==
    Begin(saveCurrentPromptCalls(store, isAutoSave, t), t)

BeginUpdateStructuralElement(id, updates) ==
    Begin(<<Call("updateStructuralElement", id, updates)>>, now)

BeginAddStructuralElement(element) ==
    /\ Len(store.structure) < MaxElements
    /\ Begin(<<Call("addStructuralElement", element, now)>>, now)

BeginResetElementContent(elementId) ==
    Begin(resetElementContentCalls(store, elementId), now)

ApplySet ==
    /\ pending # <<>>
    /\ store' = ApplyCall(store, Head(pending))
    /\ pending' = Tail(pending)
    /\ UNCHANGED <<now, snapshot, steps, autoSaveCalled, imported, firstLoad,
                   preview, importJob>>

NextSets ==
    \/ \E prompt \in OpenablePrompts, t \in ClockReadings :
            BeginSetCurrentPrompt(prompt, t)
    \/ \E isAutoSave \in BOOLEAN, t \in ClockReadings :
            BeginSaveCurrentPrompt(isAutoSave, t)
    \/ \E id \in TargetIds, content \in Contents :
            BeginUpdateStructuralElement(id, [content |-> content])
    \/ \E element \in NewElements : BeginAddStructuralElement(element)
    \/ \E id \in TargetIds : BeginResetElementContent(id)
    \/ ApplySet

SpecSets == Init /\ [][NextSets]_vars

(***************************************************************************)
(* The preview: getProcessedElementContent applied to an element, a        *)
(* preview mode, the control values and the variables of the store.        *)
(***************************************************************************)
\* elements as the preview gets them: autoRemoveEmptyLines and
\* linkedVariable are optional
PreviewElements ==
    LET base == [id : {"el-1"}, enabled : BOOLEAN, content : Texts]
    IN  {b @@ auto @@ link :
            b \in base,
            auto \in {<<>>} \cup [autoRemoveEmptyLines : BOOLEAN],
            link \in {<<>>} \cup [linkedVariable : {"#v"}]}

PreviewVariableValues ==
    {NoText, SomeText(<<>>),
     SomeText(<<"b", "\n", "\n", "\n", Placeholder>>)}

PreviewInputs ==
    [called : {FALSE},
     element : PreviewElements,
     previewMode : {"clean", "raw"},
     globalControlValues : [ControlNames -> {NoText, SomeText(<<"y">>)}],
     variables : [{"#v"} -> PreviewVariableValues],
     temporarilyUnlinked : BOOLEAN,
     result : {<<>>}]

InitPreview ==
    /\ store = InitialStore
    /\ firstLoad = [p \in PromptIds |-> NoStructure]
    /\ imported = FALSE
    /\ now = SessionStart
    /\ pending = <<>>
    /\ snapshot = InitialStore
    /\ steps = 0
    /\ autoSaveCalled = {}
    /\ preview \in PreviewInputs
    /\ importJob = [stage |-> "none"]

GetProcessedElementContent ==
    /\ ~preview.called
    /\ preview' =
        [preview EXCEPT
            !.called = TRUE,
            !.result = getProcessedElementContent(
                            preview.element, preview.previewMode,
                            preview.globalControlValues, preview.variables)]
    /\ UNCHANGED <<store, now, pending, snapshot, steps, autoSaveCalled,
                   imported, firstLoad, importJob>>

NextPreview == GetProcessedElementContent

SpecPreview == InitPreview /\ [][NextPreview]_vars

(***************************************************************************)
(* The sanitizer on its own: sanitizeElementContent applied to a string,   *)
(* or to null / undefined (no string).                                     *)
(***************************************************************************)
MaxText == 5

SanitizerInputs ==
    [called : {FALSE},
     content : {NoText} \cup
               {SomeText(text) :
                    text \in UNION {[1..n -> TextChars \ {Placeholder}] :
                                        n \in 0..MaxText}},
     result : {<<>>}]

InitSanitizer ==
    /\ store = InitialStore
    /\ firstLoad = [p \in PromptIds |-> NoStructure]
    /\ imported = FALSE
    /\ now = SessionStart
    /\ pending = <<>>
    /\ snapshot = InitialStore
    /\ steps = 0
    /\ autoSaveCalled = {}
    /\ preview \in SanitizerInputs
    /\ importJob = [stage |-> "none"]

\* sanitizeElementContent(content); `!content` holds for null and undefined
\* as it does for the empty string
SanitizeElementContent ==
    /\ ~preview.called
    /\ preview' =
        [preview EXCEPT
            !.called = TRUE,
            !.result = IF preview.content.defined
                       THEN sanitizeElementContent(preview.content.value)
                       ELSE <<>>]
    /\ UNCHANGED <<store, now, pending, snapshot, steps, autoSaveCalled,
                   imported, firstLoad, importJob>>

SpecSanitizer == InitSanitizer /\ [][SanitizeElementContent]_vars

(***************************************************************************)
(* Rehydration: the persist middleware puts the stored state into the      *)
(* store and calls the onRehydrateStorage callback with it.                *)
(***************************************************************************)
\* versions.map(version => ({ ...version, structure: ensureStructureDefaults(version.structure) }))
ensureVersionStructureDefaults(versions) ==
    [i \in 1..Len(versions) |->
        [versions[i] EXCEPT !.structure = ensureStructureDefaults(@)]]

\* persistSetRef(current => ({ ...current, structure: ..., versions: ... }))
onRehydrateStorage(state) ==
    [state EXCEPT !.structure = ensureStructureDefaults(@),
                  !.versions = ensureVersionStructureDefaults(@)]

\* elements as a state stored before the flag existed holds them (without
\* autoRemoveEmptyLines) and as a later one does (with true or false)
LegacyElements ==
    LET element(id) == [id |-> id, name |-> "New Element", enabled |-> TRUE,
                        content |-> "plain"]
    IN  [id \in ElementIds |->
            {element(id)} \cup
            {[autoRemoveEmptyLines |-> flag] @@ element(id) : flag \in BOOLEAN}]

\* the stored state: a saved or imported workspace whose live structure
\* and version structures hold such elements
InitRehydrate ==
    /\ \E base \in {PersistedStore, ImportedStore} :
       \E structures \in
            [0..Len(base.versions) ->
                {<<>>} \cup {<<element>> :
                                element \in LegacyElements[<<"test-", 1>>]}] :
       \E second \in {<<>>} \cup {<<element>> :
                                element \in LegacyElements[<<"test-", 2>>]} :
            store = [base EXCEPT
                        !.structure = structures[0] \o second,
                        !.versions =
                            [i \in 1..Len(base.versions) |->
                                [base.versions[i] EXCEPT
                                    !.structure = structures[i]]]]
    /\ snapshot = store
    /\ firstLoad = [p \in PromptIds |-> NoStructure]
    /\ imported = FALSE
    /\ now = SessionStart
    /\ pending = <<>>
    /\ steps = 0
    /\ autoSaveCalled = {}
    /\ preview = NoPreview
    /\ importJob = [stage |-> "none"]

OnRehydrateStorage ==
    /\ steps = 0
    /\ store' = onRehydrateStorage(store)
    /\ steps' = 1
    /\ UNCHANGED <<now, pending, snapshot, autoSaveCalled, imported,
                   firstLoad, preview, importJob>>

NextRehydrate ==
    \/ OnRehydrateStorage
    \/ /\ steps > 0
       /\ \E id \in ElementIds : \E element \in LegacyElements[id] :
            AddStructuralElement(element)

SpecRehydrate == InitRehydrate /\ [][NextRehydrate]_vars

(***************************************************************************)
(* Variables: the two places that create one, the variables editor and the *)
(* variable-link selector of an element card.  A name is a sequence of     *)
(* characters and the variables are a function from the names that exist.  *)
(***************************************************************************)
MaxName == 3

\* setVariable(name, value) of the variable store: the name gets the value
setVariable(editor, name, value) ==
    [variables |-> (name :> value) @@ editor.variables,
     setVariableCalls |-> editor.setVariableCalls + 1]

\* VariablesEditorModal.handleCreateVariable, with newVarName and newVarValue
handleCreateVariable(editor, newVarName, newVarValue) ==
    LET kept == {i \in 1..Len(newVarName) : newVarName[i] # " "}
        trimmed ==
            IF kept = {} THEN <<>>
            ELSE SubSeq(newVarName,
                        CHOOSE i \in kept : \A j \in kept : i <= j,
                        CHOOSE i \in kept : \A j \in kept : j <= i)
        varName == IF trimmed[1] = "#" THEN trimmed ELSE <<"#">> \o trimmed
    IN  IF trimmed = <<>> THEN editor
        ELSE IF ~(/\ Len(varName) > 1
                  /\ \A i \in 2..Len(varName) : varName[i] \in {"a", "_"})
        THEN editor
        \* if (variables[varName]): a value that is not the empty string
        ELSE IF /\ varName \in DOMAIN editor.variables
                /\ editor.variables[varName] # <<>>
        THEN editor
        ELSE setVariable(editor, varName, newVarValue)

\* VariableLinkSelector.handleCreateVariable, with newVariableName and
\* newVariableValue
VariableLinkSelectorHandleCreateVariable(editor, newVariableName, newVariableValue) ==
    LET kept == {i \in 1..Len(newVariableName) : newVariableName[i] # " "}
        trimmed ==
            IF kept = {} THEN <<>>
            ELSE SubSeq(newVariableName,
                        CHOOSE i \in kept : \A j \in kept : i <= j,
                        CHOOSE i \in kept : \A j \in kept : j <= i)
        varName == IF trimmed[1] = "#" THEN trimmed ELSE <<"#">> \o trimmed
    IN  IF trimmed = <<>> THEN editor
        ELSE IF ~(/\ Len(varName) > 1
                  /\ \A i \in 2..Len(varName) : varName[i] \in {"a", "_"})
        THEN editor
        ELSE setVariable(editor, varName, newVariableValue)

\* no variable, or the variable #a with the empty string or with a text
InitVariables ==
    /\ store = InitialStore
    /\ firstLoad = [p \in PromptIds |-> NoStructure]
    /\ imported = FALSE
    /\ now = SessionStart
    /\ pending = <<>>
    /\ snapshot = InitialStore
    /\ steps = 0
    /\ autoSaveCalled = {}
    /\ importJob = [stage |-> "none"]
    /\ \E variables \in {<<>>} \cup {<<"#", "a">> :> value :
                                        value \in {<<>>, <<"x">>}} :
        preview = [variables |-> variables, setVariableCalls |-> 0,
                   path |-> "none", name |-> <<>>, value |-> <<>>,
                   before |-> variables, callsBefore |-> 0]

\* a name and a value typed into one of the two forms and Create pressed
CreateVariable(path, name, value) ==
    /\ steps = 0
    /\ steps' = steps + 1
    /\ preview' =
        [path |-> path, name |-> name, value |-> value,
         before |-> preview.variables,
         callsBefore |-> preview.setVariableCalls]
        @@ (IF path = "editor"
            THEN handleCreateVariable(preview, name, value)
            ELSE VariableLinkSelectorHandleCreateVariable(preview, name, value))
    /\ UNCHANGED <<store, now, pending, snapshot, autoSaveCalled, imported,
                   firstLoad, importJob>>

SpecVariables ==
    InitVariables /\
    [][\E path \in {"editor", "selector"}, value \in {<<>>, <<"y">>} :
       \E name \in UNION {[1..n -> {"#", "a", "_", " ", "-"}] :
                            n \in 0..MaxName} :
            CreateVariable(path, name, value)]_vars

(***************************************************************************)
(* The import: handleImportProject analyses a parsed payload against the   *)
(* store, the preview modal gives every conflict a resolution, and         *)
(* handleImportConfirm applies the resolutions.                            *)
(***************************************************************************)
\* Files read.  The first family has every combination of the keys the
\* classification reads, the second is a workspace export with different
\* prompts and versions, met by different stores, the third is a text
\* JSON.parse throws on.
ImportPayloads ==
    LET project(id) == [id |-> <<id>>]
        prompt1 == [id |-> <<"p1">>, currentVersion |-> <<"v1">>,
                    versions |-> <<<<"v1">>>>]
        prompt2 == [id |-> <<"p2">>, currentVersion |-> NoVersion,
                    versions |-> <<>>]
        version(id, promptId, createdAt, isAutoSave) ==
            [id |-> <<id>>, promptId |-> <<promptId>>,
             createdAt |-> createdAt, isAutoSave |-> isAutoSave]
        v1 == version("v1", "p1", 1, FALSE)
        a1 == version("a1", "p1", 2, TRUE)
        v2 == version("v2", "p1", 3, FALSE)
        a2 == version("a2", "p2", 1, TRUE)
        array(items) == [array |-> TRUE, items |-> items]
        object == [array |-> FALSE, items |-> <<>>]
        shapes ==
            {a @@ b @@ c @@ d @@ e @@ f @@ g :
                a \in {<<>>} \cup [project : {project("j1")}],
                b \in {<<>>} \cup
                      [projects : {array(<<>>), array(<<project("j1")>>),
                                   array(<<project("j1"), project("j2")>>),
                                   object}],
                c \in {<<>>} \cup [uiState : {object}],
                d \in {<<>>} \cup
                      [prompts : {array(<<>>), array(<<prompt1>>),
                                  array(<<prompt1, prompt2>>)}],
                e \in {<<>>} \cup [prompt : {prompt1}],
                f \in {<<>>} \cup [versions : {<<v1>>}],
                g \in {<<>>} \cup [structure : {array(<<>>)}]
                             \cup [currentStructure : {array(<<>>)}]}
        exports ==
            [projects : {array(<<project("j1")>>)},
             uiState : {object},
             prompts : {array(<<prompt1>>), array(<<prompt1, prompt2>>)},
             versions : {<<v1>>, <<a1>>, <<v1, a1>>, <<v1, a1, v2>>,
                         <<a1, a2>>, <<v2, v1>>}]
    IN  [stage : {"read"}, parses : {TRUE}, data : shapes,
         existingProjects : {<<project("j1")>>},
         existingPrompts : {<<prompt1>>},
         existingVersions : {<<v1>>}]
        \cup
        [stage : {"read"}, parses : {TRUE}, data : exports,
         existingProjects : {<<>>, <<project("j1")>>},
         existingPrompts : {<<>>, <<prompt1>>},
         existingVersions : {<<>>, <<v1>>, <<v1, a1>>, <<v1, a1, v2, a2>>}]
        \cup
        [stage : {"read"}, parses : {FALSE}, data : {<<>>},
         existingProjects : {<<project("j1")>>},
         existingPrompts : {<<prompt1>>},
         existingVersions : {<<v1>>}]

InitImport ==
    /\ store = InitialStore
    /\ firstLoad = [p \in PromptIds |-> NoStructure]
    /\ imported = FALSE
    /\ now = SessionStart
    /\ pending = <<>>
    /\ snapshot = InitialStore
    /\ steps = 0
    /\ autoSaveCalled = {}
    /\ preview = NoPreview
    /\ importJob \in ImportPayloads

\* handleImportProject: the text parsed and the payload analysed against
\* the store's lists, the preview shown; the catch reports a failure
AnalyzeImportData ==
    /\ importJob.stage = "read"
    /\ importJob' =
        IF importJob.parses
        THEN [stage |-> "analyzed",
              analysis |-> analyzeImportData(importJob.data,
                        importJob.existingProjects, importJob.existingPrompts,
                        importJob.existingVersions, now)]
             @@ importJob
        ELSE [stage |-> "failed"] @@ importJob
    /\ UNCHANGED <<store, now, pending, snapshot, steps, autoSaveCalled,
                   imported, firstLoad, preview>>

\* handleImportConfirm(resolutions): the conflicts of the analysis, each
\* with the resolution chosen for it
ApplyImportResolutions ==
    /\ importJob.stage = "analyzed"
    /\ \E chosen \in [1..Len(importJob.analysis.conflicts) ->
                        {"overwrite", "skip", "duplicate"}] :
        LET resolutions ==
                [i \in 1..Len(chosen) |->
                    [importJob.analysis.conflicts[i] EXCEPT
                        !.resolution = chosen[i]]]
        IN  importJob' =
                [stage |-> "resolved",
                 resolutions |-> resolutions,
                 resolved |-> applyImportResolutions(importJob.analysis,
                                                     resolutions, now)]
                @@ importJob
    /\ UNCHANGED <<store, now, pending, snapshot, steps, autoSaveCalled,
                   imported, firstLoad, preview>>

NextImport == AnalyzeImportData \/ ApplyImportResolutions

SpecImport == InitImport /\ [][NextImport]_vars

(***************************************************************************)
(* Properties                                                              *)
(***************************************************************************)
\* the places in versions of the auto-saves of a prompt
AutoSavesOf(st, promptId) ==
    {i \in 1..Len(st.versions) :
        st.versions[i].promptId = promptId /\ st.versions[i].isAutoSave}

\* the versions of a prompt saved by hand, in the order of the store
ManualVersionsOf(st, promptId) ==
    SelectSeq(st.versions,
              LAMBDA v : v.promptId = promptId /\ ~v.isAutoSave)

\* the entry of a prompt in the prompts list
PromptById(st, promptId) ==
    LET i == FindIndex(st.prompts, LAMBDA p : p.id = promptId)
    IN  IF i = 0 THEN NoPrompt ELSE st.prompts[i]

\* a step of saveCurrentPrompt(false)
ManualSave == \E t \in ClockReadings : SaveCurrentPrompt(FALSE, t)

\* C1: in a store that got its versions from saveCurrentPrompt and
\* setCurrentPrompt alone (none imported), every prompt has at most one
\* auto-save version, and a prompt on which saveCurrentPrompt(true) was
\* called while it was open has exactly one.
C1_AutosaveSingleton ==
    ~imported =>
        \A p \in PromptIds :
            /\ Cardinality(AutoSavesOf(store, p)) <= 1
            /\ p \in autoSaveCalled => Cardinality(AutoSavesOf(store, p)) = 1

\* saveCurrentPrompt(true) ran on a prompt that was then switched away from
\* (a second write of its auto-save), and it has its one auto-save
C1_Witness ==
    /\ ~imported
    /\ \E p \in autoSaveCalled :
        /\ store.currentPrompt.id # p
        /\ Cardinality(AutoSavesOf(store, p)) = 1

\* C2: every saveCurrentPrompt(false) on the open prompt adds one version,
\* not an auto-save, of the open prompt, under an id that none of the
\* prompt's versions saved by hand before has, and leaves that id as the
\* prompt's currentVersion in the prompts list.
C2_ManualSaveAccumulation ==
    [][ManualSave =>
        LET created == store'.versions[Len(store'.versions)]
            promptId == store.currentPrompt.id
        IN  /\ Len(store'.versions) = Len(store.versions) + 1
            /\ ~created.isAutoSave
            /\ created.promptId = promptId
            /\ \A i \in 1..Len(ManualVersionsOf(store, promptId)) :
                    ManualVersionsOf(store, promptId)[i].id # created.id
            /\ PromptById(store', promptId).currentVersion = created.id]_vars

\* C3: every saveCurrentPrompt(false) appends the id of the version it
\* created to the versions list the prompt has in the prompts list, after
\* the ids the list held before.
C3_ManualSaveAppendsId ==
    [][ManualSave =>
        LET created == store'.versions[Len(store'.versions)]
            promptId == store.currentPrompt.id
        IN  PromptById(store', promptId).versions =
                Append(PromptById(store, promptId).versions, created.id)]_vars

\* C4: once promptUIStates[p].originalStructure (likewise
\* originalControlValues) is set, no step of any handler changes its value.
C4_BaselineCapturedOnce ==
    [][\A p \in PromptIds :
        LET before == store.promptUIStates[p]
            after == store'.promptUIStates[p]
        IN  /\ before.originalStructure.defined =>
                after.originalStructure = before.originalStructure
            /\ before.originalControlValues.defined =>
                after.originalControlValues = before.originalControlValues]_vars

\* a prompt with both baselines set that was edited away from them, and
\* switched away from, in this session
C4_Witness ==
    /\ steps >= 2
    /\ \E p \in PromptIds :
        LET uiState == store.promptUIStates[p]
        IN  /\ store.currentPrompt.id # p
            /\ uiState.originalStructure.defined
            /\ uiState.originalControlValues.defined
            /\ uiState.modifiedStructure.defined
            /\ uiState.modifiedStructure.value # uiState.originalStructure.value
            /\ uiState.uiGlobalControlValues
                    # uiState.originalControlValues.value

HasElement(structure, elementId) ==
    \E i \in 1..Len(structure) : structure[i].id = elementId

\* the content of the (first) element of a structure with an id
ContentOf(structure, elementId) ==
    structure[FindIndex(structure, LAMBDA el : el.id = elementId)].content

\* the open prompt was first loaded with a structure that holds elementId
FirstLoadedWith(elementId) ==
    /\ store.currentPrompt # NoPrompt
    /\ firstLoad[store.currentPrompt.id].defined
    /\ HasElement(firstLoad[store.currentPrompt.id].value, elementId)

\* C5: when the open prompt was first loaded with a non-empty structure
\* that contains an element e, then, whatever happened since,
\* resetElementContent(e) leaves every live element e with the content e
\* had at that first load.
C5_ResetCorrectness ==
    \A e \in TargetIds :
        FirstLoadedWith(e) =>
            LET after == Run(store, resetElementContentCalls(store, e))
                first == firstLoad[store.currentPrompt.id].value
            IN  \A i \in 1..Len(after.structure) :
                    after.structure[i].id = e =>
                        after.structure[i].content = ContentOf(first, e)

\* the element was edited since the first load, the edit was saved by hand,
\* and the reset has the content to restore
C5_Witness ==
    \E e \in TargetIds :
        /\ FirstLoadedWith(e)
        /\ HasElement(store.structure, e)
        /\ ContentOf(store.structure, e)
                # ContentOf(firstLoad[store.currentPrompt.id].value, e)
        /\ \E i \in 1..Len(store.versions) :
                /\ store.versions[i].promptId = store.currentPrompt.id
                /\ ~store.versions[i].isAutoSave
                /\ store.versions[i].structure = store.structure
        /\ Run(store, resetElementContentCalls(store, e)).structure
                # store.structure

\* the structures of the most recently created of the versions of a prompt
\* that are (or are not) auto-saves
NewestStructures(st, promptId, isAutoSave) ==
    LET candidates ==
            {i \in 1..Len(st.versions) :
                /\ st.versions[i].promptId = promptId
                /\ st.versions[i].isAutoSave = isAutoSave}
    IN  {st.versions[i].structure : i \in
            {c \in candidates :
                \A d \in candidates :
                    st.versions[d].createdAt <= st.versions[c].createdAt}}

\* what the load order promises for a prompt: the first that exists of the
\* working copy, the version currentVersion names, the newest version saved
\* by hand, the newest auto-save; the empty list when there is none
PromisedStructures(st, prompt) ==
    LET uiState == st.promptUIStates[prompt.id]
        current ==
            FindIndex(st.versions, LAMBDA v : v.id = prompt.currentVersion)
    IN  IF uiState.present /\ uiState.modifiedStructure.defined
        THEN {uiState.modifiedStructure.value}
        ELSE IF current # 0 THEN {st.versions[current].structure}
        ELSE IF NewestStructures(st, prompt.id, FALSE) # {}
        THEN NewestStructures(st, prompt.id, FALSE)
        ELSE IF NewestStructures(st, prompt.id, TRUE) # {}
        THEN NewestStructures(st, prompt.id, TRUE)
        ELSE {<<>>}

\* C6: setCurrentPrompt(p) sets the live structure to a copy of the first
\* available of: promptUIStates[p].modifiedStructure, the structure of the
\* version with id p.currentVersion, the structure of p's most recently
\* created version saved by hand, the structure of p's most recently
\* created auto-save; and to the empty list when none exists.
C6_LoadPriority ==
    \A prompt \in OpenablePrompts, t \in ClockReadings :
        Run(store, setCurrentPromptCalls(store, prompt, t)).structure
            \in {ensureStructureDefaults(s) :
                    s \in PromisedStructures(store, prompt)}

\* C7: setCurrentPrompt called while a prompt A is open with live structure
\* S leaves promptUIStates[A].modifiedStructure equal to S and leaves A with
\* exactly one auto-save version, whose structure is S; the versions of A
\* saved by hand are unchanged.  (Stores with imported auto-saves aside.)
C7_FlushOnSwitch ==
    \A prompt \in OpenablePrompts, t \in ClockReadings :
        (store.currentPrompt # NoPrompt /\ ~imported) =>
            LET A == store.currentPrompt.id
                S == store.structure
                after == Run(store, setCurrentPromptCalls(store, prompt, t))
            IN  /\ after.promptUIStates[A].modifiedStructure = SomeStructure(S)
                /\ Cardinality(AutoSavesOf(after, A)) = 1
                /\ \A i \in AutoSavesOf(after, A) :
                        after.versions[i].structure = S
                /\ ManualVersionsOf(after, A) = ManualVersionsOf(store, A)

\* C8: setCurrentPrompt(q) gives q the working state that loading it from the
\* store as it is after the outgoing prompt's flush gives; in particular,
\* called with the prompt that is already open, it leaves the live structure
\* as it was, whatever edits were made since the prompt was opened.
C8_FlushBeforeLoad ==
    \A t \in ClockReadings :
        store.currentPrompt # NoPrompt =>
            LET flushed == Run(store, FlushCalls(store, t))
                open == PromptById(store, store.currentPrompt.id)
            IN  /\ \A q \in OpenablePrompts :
                        LET after ==
                                Run(store, setCurrentPromptCalls(store, q, t))
                            loaded == Run(flushed, LoadCalls(flushed, q))
                        IN  /\ after.structure = loaded.structure
                            /\ after.uiGlobalControlValues
                                    = loaded.uiGlobalControlValues
                /\ Run(store, setCurrentPromptCalls(store, open, t)).structure
                        = store.structure

\* C9: no store state a subscriber observes is intermediate: while set
\* calls of setCurrentPrompt or of saveCurrentPrompt(false) are still to
\* come, the store is the one the handler was dispatched on (no flush
\* without the switch, no new version without the currentVersion that
\* points to it).
C9_AtomicMutations == pending # <<>> => store = snapshot

\* the set call of updateStructuralElement is the next to run, on an open
\* prompt
EditToRun ==
    /\ pending # <<>>
    /\ Head(pending).kind = "updateStructuralElement"
    /\ store.currentPrompt # NoPrompt

\* C10: the state update of updateStructuralElement on an open prompt is
\* the handler's only one, and after it
\* promptUIStates[currentPrompt.id].modifiedStructure equals the new live
\* structure while originalStructure and originalControlValues are as they
\* were.
C10_DualWriteOnEdit ==
    [][EditToRun =>
        LET before == UIStateOrDefault(store, store.currentPrompt.id)
            after == store'.promptUIStates[store.currentPrompt.id]
        IN  /\ pending' = <<>>
            /\ after.modifiedStructure = SomeStructure(store'.structure)
            /\ after.originalStructure = before.originalStructure
            /\ after.originalControlValues = before.originalControlValues]_vars

\* an edit about to run that changes an element of a prompt whose baseline
\* is set and whose working copy is not yet what the edit makes it
C10_Witness ==
    /\ EditToRun
    /\ LET uiState == store.promptUIStates[store.currentPrompt.id]
           edited == ApplyCall(store, Head(pending))
       IN  /\ uiState.originalStructure.defined
           /\ uiState.originalControlValues.defined
           /\ edited.structure # store.structure
           /\ edited.structure # uiState.originalStructure.value
           /\ uiState.modifiedStructure # SomeStructure(edited.structure)

\* the set calls of the handlers that edit the live structure, for every
\* input the callers give them
EditCalls ==
    {<<Call("updateStructuralElement", id, [content |-> content])>> :
        id \in TargetIds, content \in Contents}
    \cup {<<Call("addStructuralElement", element, now)>> :
            element \in NewElements}
    \cup {<<Call("removeStructuralElement", id, <<>>)>> : id \in TargetIds}
    \cup {<<Call("toggleStructuralElement", id, <<>>)>> : id \in TargetIds}
    \cup {<<Call("updateStructure", ArrayMove(store.structure, from, to), <<>>)>> :
            from \in 1..Len(store.structure), to \in 1..Len(store.structure)}
    \cup {resetElementContentCalls(store, id) : id \in TargetIds}

\* C11: while a prompt is open, after every handler call that changes the
\* live structure (updateStructuralElement, addStructuralElement,
\* removeStructuralElement, toggleStructuralElement, updateStructure,
\* resetElementContent) the open prompt's modifiedStructure equals the live
\* structure.
C11_ShadowCopyOnEveryEdit ==
    \A calls \in EditCalls :
        LET after == Run(store, calls)
        IN  (store.currentPrompt # NoPrompt
             /\ after.structure # store.structure) =>
                after.promptUIStates[store.currentPrompt.id].modifiedStructure
                    = SomeStructure(after.structure)

\* the versions that are not auto-saves, in the order of the store
ManualVersions(st) == SelectSeq(st.versions, LAMBDA v : ~v.isAutoSave)

\* C12: after cleanupOldAutoSaves every promptId occurring in versions has
\* exactly one auto-save left if it had any, one with the greatest
\* createdAt, and none otherwise; the versions that are not auto-saves, the
\* prompts and the promptUIStates are unchanged; a second call changes
\* nothing.
C12_CleanupOldAutoSaves ==
    LET after == Run(store, cleanupOldAutoSavesCalls(store))
    IN  /\ \A p \in PromptIds :
            IF AutoSavesOf(store, p) = {}
            THEN AutoSavesOf(after, p) = {}
            ELSE /\ Cardinality(AutoSavesOf(after, p)) = 1
                 /\ \A i \in AutoSavesOf(after, p) :
                        /\ \E j \in AutoSavesOf(store, p) :
                                store.versions[j] = after.versions[i]
                        /\ \A j \in AutoSavesOf(store, p) :
                                store.versions[j].createdAt
                                    <= after.versions[i].createdAt
        /\ ManualVersions(after) = ManualVersions(store)
        /\ after.prompts = store.prompts
        /\ after.promptUIStates = store.promptUIStates
        /\ Run(after, cleanupOldAutoSavesCalls(after)) = after

\* the versions of the store with an id, as indices
VersionsWithId(st, versionId) ==
    {j \in 1..Len(st.versions) : st.versions[j].id = versionId}

\* C13: in every reachable store a prompt's currentVersion is empty, or is
\* an id held by the prompt's versions list that names an existing version
\* of that prompt.
C13_CurrentVersionReferential ==
    \A i \in 1..Len(store.prompts) :
        LET prompt == store.prompts[i]
        IN  \/ prompt.currentVersion = NoVersion
            \/ /\ \E k \in 1..Len(prompt.versions) :
                        prompt.versions[k] = prompt.currentVersion
               /\ \E j \in VersionsWithId(store, prompt.currentVersion) :
                        store.versions[j].promptId = prompt.id

\* C14: a version created by a manual save is an immutable snapshot: across
\* every step (edits, manual saves, auto-saves, switches, resets, cleanup)
\* a version that is not an auto-save is still in the store with the same
\* id, promptId, createdAt and structure, unless the step deleted its id.
C14_ManualVersionsImmutable ==
    [][\A j \in 1..Len(store.versions) :
            LET version == store.versions[j]
            IN  ~version.isAutoSave =>
                    \/ VersionsWithId(store', version.id) = {}
                    \/ \E k \in VersionsWithId(store', version.id) :
                            /\ ~store'.versions[k].isAutoSave
                            /\ store'.versions[k].promptId = version.promptId
                            /\ store'.versions[k].createdAt = version.createdAt
                            /\ store'.versions[k].structure = version.structure
      ]_vars

\* the open prompt has no baseline structure / no baseline control values
NoBaselineStructure(st) ==
    /\ st.currentPrompt # NoPrompt
    /\ ~UIStateOrDefault(st, st.currentPrompt.id).originalStructure.defined

NoBaselineControlValues(st) ==
    /\ st.currentPrompt # NoPrompt
    /\ ~UIStateOrDefault(st, st.currentPrompt.id).originalControlValues.defined

\* resetElementContent(id) on an open prompt without a baseline structure
\* changes neither the live structure nor the control values and stores the
\* live structure as the baseline
LazyBaselineOfStructure ==
    NoBaselineStructure(store) =>
        \A id \in ElementIds :
            LET after == Run(store, resetElementContentCalls(store, id))
            IN  HasElement(store.structure, id) =>
                    /\ after.structure = store.structure
                    /\ after.uiGlobalControlValues = store.uiGlobalControlValues
                    /\ after.promptUIStates[store.currentPrompt.id].originalStructure
                            = SomeStructure(store.structure)

\* resetControlValue(name) on an open prompt without baseline control values
\* changes neither and stores the live control values as the baseline
LazyBaselineOfControlValues ==
    NoBaselineControlValues(store) =>
        \A name \in ControlNames :
            LET after == Run(store, resetControlValueCalls(store, name))
            IN  /\ after.structure = store.structure
                /\ after.uiGlobalControlValues = store.uiGlobalControlValues
                /\ after.promptUIStates[store.currentPrompt.id].originalControlValues
                        = SomeValues(store.uiGlobalControlValues)

\* C15: lazy baseline on reset: with a prompt open and no baseline yet,
\* resetElementContent(id) and resetControlValue(name) each leave the live
\* structure and control values unchanged and store the current state as
\* the prompt's baseline.
C15_LazyBaselineOnReset ==
    LazyBaselineOfStructure /\ LazyBaselineOfControlValues

\* loadPromptVersion(versionId), lines 827-833
loadPromptVersion(st, versionId) ==
    LET version == FindIndex(st.versions, LAMBDA v : v.id = versionId)
    IN  IF version # 0
        THEN [st EXCEPT !.structure = st.versions[version].structure]
        ELSE st

\* createNewVersion(), lines 835-841
createNewVersionCalls(st, t) ==
    IF st.currentPrompt = NoPrompt THEN <<>>
    ELSE saveCurrentPromptCalls(st, FALSE, t)

\* deletePrompt that leaves the versions of the prompt in the store
deletePromptKeepingVersions(st, id) ==
    [st EXCEPT
        !.prompts = SelectSeq(@, LAMBDA prompt : prompt.id # id),
        !.promptUIStates = [@ EXCEPT ![id] = AbsentUIState]]

\* deletePrompt(id), lines 563-572
deletePrompt(st, id) ==
    [st EXCEPT
        !.prompts = SelectSeq(@, LAMBDA prompt : prompt.id # id),
        !.versions = SelectSeq(@, LAMBDA version : version.promptId # id),
        !.promptUIStates = [@ EXCEPT ![id] = AbsentUIState]]

\* ids the callers can pass: those the model's handlers produce and others
VersionIdInputs ==
    {VerId(t) : t \in 0..(SessionStart + MaxClock + 1)}
        \cup {<<"ver_import", n>> : n \in 0..2}
ElementIdInputs == ElementIds \cup {<<"test-", 0>>}

\* the handlers that need an open prompt, with none open
NoPromptOpenIsNoOp ==
    store.currentPrompt = NoPrompt =>
        /\ \A t \in ClockReadings, isAutoSave \in BOOLEAN :
                Run(store, saveCurrentPromptCalls(store, isAutoSave, t)) = store
        /\ \A t \in ClockReadings :
                Run(store, createNewVersionCalls(store, t)) = store
        /\ \A id \in ElementIdInputs :
                Run(store, resetElementContentCalls(store, id)) = store
        /\ \A name \in ControlNames :
                Run(store, resetControlValueCalls(store, name)) = store

\* the handlers that take a version id, with an id no version has
UnknownVersionIsNoOp ==
    \A id \in VersionIdInputs :
        VersionsWithId(store, id) = {} =>
            /\ loadPromptVersion(store, id) = store
            /\ \A t \in ClockReadings :
                    updateVersion(store, id,
                        [structure |-> <<>>, createdAt |-> t]) = store
            /\ deleteVersion(store, id) = store

\* the handlers that take a prompt id, with an id no prompt has
UnknownPromptIsNoOp ==
    \A id \in PromptIds :
        PromptById(store, id) = NoPrompt =>
            /\ updatePrompt(store, id,
                    [currentVersion |-> VerId(0), versions |-> <<VerId(0)>>])
                    = store
            /\ deletePrompt(store, id) = store

\* the handlers that take an element id, with an id no element has
UnknownElementIsNoOp ==
    \A id \in ElementIdInputs :
        ~HasElement(store.structure, id) =>
            /\ \A content \in Contents :
                    updateStructuralElement(store, id, [content |-> content])
                        = store
            /\ removeStructuralElement(store, id) = store
            /\ toggleStructuralElement(store, id) = store
            /\ Run(store, resetElementContentCalls(store, id)) = store

\* C16: referential absence is a no-op: the handlers called with no prompt
\* open, with an unknown version id, with an unknown prompt id or with an
\* unknown element id leave the whole store unchanged.
C16_ReferentialAbsenceIsNoOp ==
    /\ NoPromptOpenIsNoOp
    /\ UnknownVersionIsNoOp
    /\ UnknownPromptIsNoOp
    /\ UnknownElementIsNoOp

\* C17: a disabled element renders as the empty string, whatever its
\* content, the preview mode, the control values, the linked variable and
\* autoRemoveEmptyLines are.
C17_DisabledElementIsEmpty ==
    (preview.called /\ ~preview.element.enabled) => preview.result = <<>>

C17_Witness ==
    /\ preview.called
    /\ ~preview.element.enabled
    /\ ~IsBlank(preview.element.content)
    /\ preview.previewMode = "raw"
    /\ Has(preview.element, "linkedVariable")
    /\ ~IsBlank(preview.variables["#v"].value)

\* C18: raw mode passthrough: for an enabled element without a linked
\* variable the raw preview is element.content unchanged, for every content
\* and every values map, whatever autoRemoveEmptyLines is.
C18_RawModePassthrough ==
    (/\ preview.called
     /\ preview.element.enabled
     /\ ~Has(preview.element, "linkedVariable")
     /\ preview.previewMode = "raw")
        => preview.result = preview.element.content

\* C18 as the code has it: element.content unchanged, except that a content
\* of nothing but whitespace gives the empty string.
C18_RawModePassthroughOfText ==
    (/\ preview.called
     /\ preview.element.enabled
     /\ ~Has(preview.element, "linkedVariable")
     /\ preview.previewMode = "raw")
        => preview.result =
                IF IsBlank(preview.element.content) THEN <<>>
                ELSE preview.element.content

C18_Witness ==
    /\ preview.called
    /\ preview.element.enabled
    /\ ~Has(preview.element, "linkedVariable")
    /\ preview.previewMode = "raw"
    /\ preview.element.content = <<Placeholder, "\n", "\n">>
    /\ preview.globalControlValues["k"].defined
    /\ ~Has(preview.element, "autoRemoveEmptyLines")
    /\ preview.result = preview.element.content

\* the result for an element whose own content is the text given and which
\* has no link
ProcessedText(text) ==
    getProcessedElementContent(
        [field \in DOMAIN preview.element \ {"linkedVariable"} |->
            IF field = "content" THEN text ELSE preview.element[field]],
        preview.previewMode, preview.globalControlValues, preview.variables)

\* C19: content selection for linked elements: the resolver processes the
\* linked variable's value if and only if linkedVariable is set, the element
\* is not temporarily unlinked and the variable exists; in every other case
\* it processes element.content.
C19_ContentSelectionForLinkedElements ==
    (preview.called /\ preview.element.enabled) =>
        preview.result =
            IF /\ Has(preview.element, "linkedVariable")
               /\ ~preview.temporarilyUnlinked
               /\ preview.variables["#v"].defined
            THEN ProcessedText(preview.variables["#v"].value)
            ELSE ProcessedText(preview.element.content)

\* the text the resolver selects (lines 15-23) and its rendering (29-30)
SelectedText ==
    IF /\ Has(preview.element, "linkedVariable")
       /\ getVariable(preview.variables, preview.element.linkedVariable).defined
    THEN getVariable(preview.variables, preview.element.linkedVariable).value
    ELSE preview.element.content

RenderedText ==
    renderPrompt(SelectedText, parseControlSyntax(SelectedText),
                 preview.globalControlValues)

\* element.autoRemoveEmptyLines ?? true
AutoRemoveEmptyLines ==
    IF Has(preview.element, "autoRemoveEmptyLines")
    THEN preview.element.autoRemoveEmptyLines ELSE TRUE

\* C20: conditional sanitizing: for an enabled element in clean mode the
\* result is the sanitized rendered text when autoRemoveEmptyLines is true
\* or absent and the rendered text untouched when it is false; in raw mode
\* the sanitizer is never applied (a result that is not empty is the
\* selected text as it is).
C20_ConditionalSanitizing ==
    (preview.called /\ preview.element.enabled) =>
        IF preview.previewMode = "clean"
        THEN preview.result =
                IF AutoRemoveEmptyLines
                THEN sanitizeElementContent(RenderedText)
                ELSE RenderedText
        ELSE preview.result = <<>> \/ preview.result = SelectedText

\* C20 as the code has it: without the sanitizer (autoRemoveEmptyLines
\* false, or raw mode) a text of nothing but whitespace gives the empty
\* string.
C20_ConditionalSanitizingOfText ==
    (preview.called /\ preview.element.enabled) =>
        IF preview.previewMode = "clean"
        THEN preview.result =
                IF AutoRemoveEmptyLines
                THEN sanitizeElementContent(RenderedText)
                ELSE IF IsBlank(RenderedText) THEN <<>> ELSE RenderedText
        ELSE preview.result =
                IF IsBlank(SelectedText) THEN <<>> ELSE SelectedText

C20_Witness ==
    /\ preview.called
    /\ preview.element.enabled
    /\ preview.previewMode = "clean"
    /\ ~AutoRemoveEmptyLines
    /\ preview.element.content = <<"\n", Placeholder, "\n">>
    /\ ~Has(preview.element, "linkedVariable")
    /\ preview.result = <<"\n", "x", "\n">>
    /\ sanitizeElementContent(RenderedText) = <<"x">>

\* C21: sanitizer idempotence: sanitizing the sanitizer's output gives that
\* output again, for every string (text, blank and whitespace-only lines,
\* trailing whitespace, CRLF and LF line ends).
C21_SanitizerIdempotence ==
    preview.called =>
        sanitizeElementContent(preview.result) = preview.result

C21_Witness ==
    /\ preview.called
    /\ preview.content = SomeText(<<"a", " ", "\r", "\n", "\n">>)
    /\ preview.result = <<"a">>

\* C22: sanitizer blank-line structure: the output's non-blank lines are the
\* input's non-blank lines, right-trimmed, in order; two of them are
\* separated by exactly one empty line if blank lines separated them in the
\* input and by none otherwise; no leading and no trailing blank line; null,
\* undefined, empty and whitespace-only input give ''.
C22_SanitizerBlankLineStructure ==
    preview.called =>
        LET lines == IF preview.content.defined
                     THEN SplitLines(preview.content.value) ELSE <<>>
            nonBlank == {i \in 1..Len(lines) : ~IsBlank(lines[i])}
            upTo[i \in 0..Len(lines)] ==
                IF i = 0 THEN <<>>
                ELSE IF i \notin nonBlank THEN upTo[i - 1]
                ELSE IF \A j \in nonBlank : j >= i THEN TrimEnd(lines[i])
                ELSE upTo[i - 1]
                        \o (IF i - 1 \in nonBlank THEN <<"\n">>
                            ELSE <<"\n", "\n">>)
                        \o TrimEnd(lines[i])
        IN  preview.result = upTo[Len(lines)]

C22_Witness ==
    /\ preview.called
    /\ preview.content = SomeText(<<"\n", "a", "\n", "\n", "a">>)
    /\ preview.result = <<"a", "\n", "\n", "a">>

\* C23: import conflict detection: analyzeImportData returns a conflict
\* entry for an imported project, prompt or version if and only if an
\* existing entity of the same kind has the same id; every entry carries
\* that id, the kind as type, and resolution 'overwrite'.
C23_ImportConflictDetection ==
    importJob.stage = "analyzed" =>
        LET analysis == importJob.analysis
            conflicting(items, existing) ==
                {i \in 1..Len(items) :
                    \E k \in 1..Len(existing) : existing[k].id = items[i].id}
            entries(type) ==
                {c \in 1..Len(analysis.conflicts) :
                    analysis.conflicts[c].type = type}
            agree(items, existing, type) ==
                /\ Cardinality(entries(type))
                        = Cardinality(conflicting(items, existing))
                /\ \A i \in 1..Len(items) :
                        i \in conflicting(items, existing)
                            <=> \E c \in entries(type) :
                                    analysis.conflicts[c].id = items[i].id
                /\ \A c \in entries(type) :
                        \E i \in conflicting(items, existing) :
                            items[i].id = analysis.conflicts[c].id
        IN  /\ agree(analysis.projects, importJob.existingProjects, "project")
            /\ agree(analysis.prompts, importJob.existingPrompts, "prompt")
            /\ agree(analysis.versions, importJob.existingVersions, "version")
            /\ \A c \in 1..Len(analysis.conflicts) :
                    /\ analysis.conflicts[c].resolution = "overwrite"
                    /\ analysis.conflicts[c].type
                            \in {"project", "prompt", "version"}

C23_Witness ==
    /\ importJob.stage = "analyzed"
    /\ Len(importJob.analysis.prompts) = 2
    /\ Len(importJob.analysis.versions) = 3
    /\ {importJob.analysis.conflicts[c].type :
            c \in 1..Len(importJob.analysis.conflicts)}
                = {"project", "prompt", "version"}
    /\ Len(importJob.analysis.conflicts) = 4

\* C24: import shape classification, the first matching rule deciding: a
\* project key without projects gives 'project'; otherwise a projects array
\* gives 'workspace' if uiState is present, else 'project' if it has exactly
\* one entry, else 'bulk-projects'; otherwise a prompts array gives 'prompt'
\* if it has exactly one entry, else 'bulk-prompts'; otherwise a prompt key
\* gives 'prompt'.
C24_ImportShapeClassification ==
    importJob.stage = "analyzed" =>
        LET data == importJob.data
            type == importJob.analysis.type
            isArray(key) == Has(data, key) /\ data[key].array
        IN  IF Has(data, "project") /\ ~Has(data, "projects")
            THEN type = "project"
            ELSE IF isArray("projects")
            THEN type = IF Has(data, "uiState") THEN "workspace"
                        ELSE IF Len(data.projects.items) = 1 THEN "project"
                        ELSE "bulk-projects"
            ELSE IF isArray("prompts")
            THEN type = IF Len(data.prompts.items) = 1 THEN "prompt"
                        ELSE "bulk-prompts"
            ELSE Has(data, "prompt") => type = "prompt"

C24_Witness ==
    /\ importJob.stage = "analyzed"
    /\ \A key \in {"project", "projects", "prompts", "prompt"} :
            Has(importJob.data, key)
    /\ ~Has(importJob.data, "uiState")
    /\ Len(importJob.data.projects.items) = 2
    /\ Len(importJob.data.prompts.items) = 1
    /\ importJob.analysis.type = "bulk-projects"

\* C25: resolution semantics: an analysed project, prompt or version is
\* absent from the result if and only if its resolution is 'skip'; with
\* 'overwrite' or no resolution it appears with its id unchanged; with
\* 'duplicate' it appears under a fresh id that differs from every id in
\* the analysis and ends with the original id.
C25_ResolutionSemantics ==
    importJob.stage = "resolved" =>
        LET analysis == importJob.analysis
            ids(items) == {items[i].id : i \in 1..Len(items)}
            analysed == ids(analysis.projects) \cup ids(analysis.prompts)
                            \cup ids(analysis.versions)
            resolutionOf(id) ==
                IF \E r \in 1..Len(importJob.resolutions) :
                        importJob.resolutions[r].id = id
                THEN importJob.resolutions[
                        CHOOSE r \in 1..Len(importJob.resolutions) :
                            importJob.resolutions[r].id = id].resolution
                ELSE "none"
            mintedFrom(id) ==
                {new \in UNION {ids(importJob.resolved.projects),
                                             ids(importJob.resolved.prompts),
                                             ids(importJob.resolved.versions)} :
                    /\ Len(new) > Len(id)
                    /\ SubSeq(new, Len(new) - Len(id) + 1, Len(new)) = id}
            asResolved(items, result) ==
                \A id \in ids(items) :
                    CASE resolutionOf(id) = "skip" ->
                            ids(result) \cap ({id} \cup mintedFrom(id)) = {}
                      [] resolutionOf(id) = "duplicate" ->
                            /\ id \notin ids(result)
                            /\ \E new \in ids(result) \cap mintedFrom(id) :
                                    new \notin analysed
                      [] OTHER -> id \in ids(result)
        IN  /\ asResolved(analysis.projects, importJob.resolved.projects)
            /\ asResolved(analysis.prompts, importJob.resolved.prompts)
            /\ asResolved(analysis.versions, importJob.resolved.versions)

C25_Witness ==
    /\ importJob.stage = "resolved"
    /\ {importJob.resolutions[r].resolution :
            r \in 1..Len(importJob.resolutions)}
                = {"overwrite", "skip", "duplicate"}
    /\ Len(importJob.resolutions) < Len(importJob.analysis.projects)
            + Len(importJob.analysis.prompts) + Len(importJob.analysis.versions)
    /\ \E r \in 1..Len(importJob.resolutions) :
            /\ importJob.resolutions[r].type = "version"
            /\ importJob.resolutions[r].resolution = "duplicate"

\* C26: duplicating a prompt duplicates its versions: when a prompt is
\* resolved as 'duplicate', for every analysed version of that prompt that
\* is not skipped the result contains a copy with a fresh id whose promptId
\* is the duplicated prompt's new id, and the original version is still
\* present under its original promptId (under its original id, unless the
\* version itself is resolved as 'duplicate').
C26_DuplicatedPromptDuplicatesVersions ==
    importJob.stage = "resolved" =>
        LET analysis == importJob.analysis
            result == importJob.resolved
            ids(items) == {items[i].id : i \in 1..Len(items)}
            analysed == ids(analysis.projects) \cup ids(analysis.prompts)
                            \cup ids(analysis.versions)
            resolutionOf(id) ==
                IF \E r \in 1..Len(importJob.resolutions) :
                        importJob.resolutions[r].id = id
                THEN importJob.resolutions[
                        CHOOSE r \in 1..Len(importJob.resolutions) :
                            importJob.resolutions[r].id = id].resolution
                ELSE "none"
            endsWith(new, id) ==
                /\ Len(new) > Len(id)
                /\ SubSeq(new, Len(new) - Len(id) + 1, Len(new)) = id
        IN  \A p \in 1..Len(analysis.prompts), v \in 1..Len(analysis.versions) :
                LET prompt == analysis.prompts[p]
                    version == analysis.versions[v]
                IN  /\ resolutionOf(prompt.id) = "duplicate"
                    /\ version.promptId = prompt.id
                    /\ resolutionOf(version.id) # "skip"
                    => /\ \E w \in 1..Len(result.versions), q \in 1..Len(result.prompts) :
                            /\ endsWith(result.prompts[q].id, prompt.id)
                            /\ result.versions[w].promptId = result.prompts[q].id
                            /\ endsWith(result.versions[w].id, version.id)
                            /\ result.versions[w].id \notin analysed
                       /\ \E w \in 1..Len(result.versions) :
                            /\ result.versions[w].promptId = prompt.id
                            /\ IF resolutionOf(version.id) = "duplicate"
                               THEN endsWith(result.versions[w].id, version.id)
                               ELSE result.versions[w].id = version.id

\* C27: no dangling version pointers after import resolution: for every
\* prompt in the result of applyImportResolutions, currentVersion is either
\* empty or the id of a version in the result whose promptId is that
\* prompt's id, and every id in its versions list is such a version; when
\* the prompt has retained versions, currentVersion is the most recently
\* created non-autosave one, else the most recently created autosave.
C27_NoDanglingVersionPointers ==
    importJob.stage = "resolved" =>
        LET result == importJob.resolved
        IN  \A p \in 1..Len(result.prompts) :
                LET prompt == result.prompts[p]
                    retained == {w \in 1..Len(result.versions) :
                                    result.versions[w].promptId = prompt.id}
                    manual == {w \in retained : ~result.versions[w].isAutoSave}
                    newest(among) ==
                        {w \in among : \A o \in among :
                            result.versions[o].createdAt
                                <= result.versions[w].createdAt}
                    idsOf(among) == {result.versions[w].id : w \in among}
                IN  /\ prompt.currentVersion = NoVersion
                            \/ prompt.currentVersion \in idsOf(retained)
                    /\ \A i \in 1..Len(prompt.versions) :
                            prompt.versions[i] \in idsOf(retained)
                    /\ retained # {} =>
                            prompt.currentVersion \in
                                idsOf(newest(IF manual # {} THEN manual
                                                            ELSE retained))

\* C28: a prompt's versions list excludes autosaves: for every prompt in
\* the result of applyImportResolutions, no id in its versions list
\* identifies a version with isAutoSave = true, for every combination of
\* retained autosave and non-autosave versions.
C28_VersionsListExcludesAutosaves ==
    importJob.stage = "resolved" =>
        \A p \in 1..Len(importJob.resolved.prompts) :
            \A i \in 1..Len(importJob.resolved.prompts[p].versions) :
                \A w \in 1..Len(importJob.resolved.versions) :
                    importJob.resolved.versions[w].id
                            = importJob.resolved.prompts[p].versions[i]
                        => ~importJob.resolved.versions[w].isAutoSave

\* C29: unrecognised import payload: analysing a parsed payload that has
\* none of the keys project, projects, prompts, prompt yields a failure
\* result reported to the caller, not a successful analysis; nothing is
\* added to the store.
C29_UnrecognisedImportPayload ==
    /\ importJob.stage \notin {"none", "read"}
    /\ importJob.parses
    /\ \A key \in {"project", "projects", "prompts", "prompt"} :
            ~Has(importJob.data, key)
    => /\ importJob.stage = "failed"
       /\ store = InitialStore

\* C30: autoRemoveEmptyLines default: after rehydration every element of
\* the live structure and of every version's structure has a defined
\* autoRemoveEmptyLines, equal to true where the persisted element lacked
\* it and equal to the persisted value (including false) otherwise;
\* addStructuralElement applies the same default to an element added
\* without the field.
C30_AutoRemoveEmptyLinesDefault ==
    steps > 0 =>
        LET defaulted(persisted, element) ==
                /\ Has(element, "autoRemoveEmptyLines")
                /\ element.autoRemoveEmptyLines =
                        IF Has(persisted, "autoRemoveEmptyLines")
                        THEN persisted.autoRemoveEmptyLines ELSE TRUE
        IN  /\ Len(store.structure) >= Len(snapshot.structure)
            /\ \A i \in 1..Len(snapshot.structure) :
                    defaulted(snapshot.structure[i], store.structure[i])
            /\ \A i \in 1..Len(store.structure) :
                    Has(store.structure[i], "autoRemoveEmptyLines")
            /\ Len(store.versions) = Len(snapshot.versions)
            /\ \A v \in 1..Len(snapshot.versions) :
                    /\ Len(store.versions[v].structure)
                            = Len(snapshot.versions[v].structure)
                    /\ \A i \in 1..Len(snapshot.versions[v].structure) :
                            defaulted(snapshot.versions[v].structure[i],
                                      store.versions[v].structure[i])
            /\ \A id \in ElementIds : \A element \in LegacyElements[id] :
                    LET added == addStructuralElement(store, element, now).structure
                    IN  /\ Len(added) = Len(store.structure) + 1
                        /\ SubSeq(added, 1, Len(store.structure)) = store.structure
                        /\ defaulted(element, added[Len(added)])

C30_Witness ==
    /\ steps > 1
    /\ Len(store.structure) = 2
    /\ Len(snapshot.structure) = 1
    /\ ~Has(snapshot.structure[1], "autoRemoveEmptyLines")
    /\ store.structure[1].autoRemoveEmptyLines
    /\ store.structure[2].autoRemoveEmptyLines
    /\ \E v \in 1..Len(snapshot.versions) :
            /\ snapshot.versions[v].structure # <<>>
            /\ ~Has(snapshot.versions[v].structure[1], "autoRemoveEmptyLines")
    /\ \E v \in 1..Len(snapshot.versions) :
            /\ snapshot.versions[v].structure # <<>>
            /\ Has(snapshot.versions[v].structure[1], "autoRemoveEmptyLines")
            /\ ~store.versions[v].structure[1].autoRemoveEmptyLines

\* C31: variable creation is validated on every creation path (the
\* variables editor and the element's variable-link selector): a name that,
\* after '#' is prefixed when missing, does not match ^#[A-Za-z0-9_]+$, or
\* that names a variable that already exists (whatever its current value,
\* including the empty string), is rejected: setVariable is not called and
\* the existing variable keeps its value.
C31_VariableCreationValidated ==
    preview.path # "none" =>
        \* the typed name without the blanks around it, '#' put in front
        LET typed == SelectSeq(preview.name, LAMBDA c : c # " ")
            blanksInside ==
                \E i, j, k \in 1..Len(preview.name) :
                    /\ i < j /\ j < k
                    /\ preview.name[i] # " " /\ preview.name[j] = " "
                    /\ preview.name[k] # " "
            varName == IF typed # <<>> /\ typed[1] = "#" THEN typed
                       ELSE <<"#">> \o typed
            matches ==
                /\ ~blanksInside
                /\ Len(varName) > 1
                /\ \A i \in 2..Len(varName) : varName[i] \in {"a", "_"}
        IN  ~matches \/ varName \in DOMAIN preview.before
                => /\ preview.setVariableCalls = preview.callsBefore
                   /\ DOMAIN preview.variables = DOMAIN preview.before
                   /\ \A earlier \in DOMAIN preview.before :
                        preview.variables[earlier] = preview.before[earlier]

\* C32: element ids are unique: in every reachable state the ids of the
\* elements of the live structure are pairwise distinct, after any sequence
\* of addStructuralElement (with or without a caller-supplied id),
\* updateStructuralElement, removeStructuralElement,
\* toggleStructuralElement and setCurrentPrompt.
C32_ElementIdsUnique ==
    \A i, j \in 1..Len(store.structure) :
        store.structure[i].id = store.structure[j].id => i = j

\* C33: structural actions touch only their target:
\* updateStructuralElement(id, patch) changes exactly the patched fields of
\* the element id and keeps its other fields; toggleStructuralElement(id)
\* flips only that element's enabled flag; removeStructuralElement(id)
\* removes exactly the elements with that id; addStructuralElement appends
\* exactly one element at the end keeping a supplied id.  In each case all
\* other elements and their relative order are unchanged.
C33_StructuralActionsTouchOnlyTarget ==
    LET before == store.structure
        \* the fields of an element but the one named
        others(element, field) ==
            [f \in (DOMAIN element) \ {field} |-> element[f]]
    IN  /\ \A id \in TargetIds, content \in Contents :
            LET after == updateStructuralElement(store, id,
                                                 [content |-> content]).structure
            IN  /\ Len(after) = Len(before)
                /\ \A i \in 1..Len(before) :
                        IF before[i].id = id
                        THEN /\ after[i].content = content
                             /\ others(after[i], "content")
                                    = others(before[i], "content")
                        ELSE after[i] = before[i]
        /\ \A id \in TargetIds :
            LET after == toggleStructuralElement(store, id).structure
            IN  /\ Len(after) = Len(before)
                /\ \A i \in 1..Len(before) :
                        IF before[i].id = id
                        THEN /\ after[i].enabled = ~before[i].enabled
                             /\ others(after[i], "enabled")
                                    = others(before[i], "enabled")
                        ELSE after[i] = before[i]
        /\ \A id \in TargetIds :
            LET after == removeStructuralElement(store, id).structure
                kept == {i \in 1..Len(before) : before[i].id # id}
            IN  /\ Len(after) = Cardinality(kept)
                /\ \A i \in kept :
                        after[Cardinality({j \in kept : j <= i})] = before[i]
        /\ \A element \in NewElements :
            LET after == addStructuralElement(store, element, now).structure
            IN  /\ Len(after) = Len(before) + 1
                /\ \A i \in 1..Len(before) : after[i] = before[i]
                /\ after[Len(after)].id = element.id
                /\ others(after[Len(after)], "autoRemoveEmptyLines") = element

C33_Witness ==
    /\ Len(store.structure) = 2
    /\ store.structure[1].id # store.structure[2].id
    /\ store.structure[1].content = "{{text:k:x}}"
    /\ store.structure[1].enabled
    /\ store.structure[2].content = "plain"
    /\ ~store.structure[2].enabled
    /\ steps >= 3

(***************************************************************************)
(* Deleting: the confirmation dialogs of the browser call deletePrompt and *)
(* deleteProject; the editor goes on with the prompt it has open.          *)
(***************************************************************************)
\* deleteProject(id), lines 538-545, for the project found under the id:
\* projects are not part of the modelled store, the project's list of
\* prompt ids is what the filter of the prompts reads
deleteProject(st, project) ==
    [st EXCEPT
        !.prompts = SelectSeq(@, LAMBDA prompt : prompt.id \notin project.prompts)]

\* handleConfirmDeletePrompt: a prompt of the list deleted
DeletePrompt(id) ==
    /\ pending = <<>>
    /\ steps < MaxSteps
    /\ \E i \in 1..Len(store.prompts) : store.prompts[i].id = id
    /\ snapshot' = store
    /\ store' = deletePrompt(store, id)
    /\ steps' = steps + 1
    /\ UNCHANGED <<now, pending, autoSaveCalled, imported, firstLoad,
                   preview, importJob>>

\* handleConfirmDeleteProject: a project holding some of the prompts deleted
DeleteProject(project) ==
    /\ pending = <<>>
    /\ steps < MaxSteps
    /\ \E i \in 1..Len(store.prompts) : store.prompts[i].id \in project.prompts
    /\ snapshot' = store
    /\ store' = deleteProject(store, project)
    /\ steps' = steps + 1
    /\ UNCHANGED <<now, pending, autoSaveCalled, imported, firstLoad,
                   preview, importJob>>

NextDelete ==
    \/ \E id \in PromptIds : DeletePrompt(id)
    \/ \E prompts \in SUBSET PromptIds :
            DeleteProject([id |-> "j1", prompts |-> prompts])
    \/ \E prompt \in OpenablePrompts, t \in ClockReadings :
            SetCurrentPrompt(prompt, t)
    \/ \E isAutoSave \in BOOLEAN, t \in ClockReadings :
            SaveCurrentPrompt(isAutoSave, t)
    \/ \E id \in TargetIds, content \in Contents :
            UpdateStructuralElement(id, [content |-> content])

SpecDelete == Init /\ [][NextDelete]_vars

\* C34: deletePrompt(id) removes the prompt with that id, every version
\* whose promptId is id, and the promptUIStates entry of id, and leaves
\* every other prompt, version and promptUIStates entry unchanged.
C34_DeletePrompt ==
    \A id \in PromptIds :
        LET after == deletePrompt(store, id)
            prompts == {i \in 1..Len(store.prompts) : store.prompts[i].id # id}
            versions == {i \in 1..Len(store.versions) :
                            store.versions[i].promptId # id}
        IN  /\ Len(after.prompts) = Cardinality(prompts)
            /\ \A i \in prompts :
                    after.prompts[Cardinality({j \in prompts : j <= i})]
                        = store.prompts[i]
            /\ Len(after.versions) = Cardinality(versions)
            /\ \A i \in versions :
                    after.versions[Cardinality({j \in versions : j <= i})]
                        = store.versions[i]
            /\ ~after.promptUIStates[id].present
            /\ \A other \in PromptIds \ {id} :
                    after.promptUIStates[other] = store.promptUIStates[other]

C34_Witness ==
    /\ Len(snapshot.prompts) = 2
    /\ Len(store.prompts) = 1
    /\ \E id \in PromptIds :
        /\ store = deletePrompt(snapshot, id)
        /\ snapshot.promptUIStates[id].present
        /\ \E i \in 1..Len(snapshot.versions) : snapshot.versions[i].promptId = id
    /\ store.versions # <<>>
    /\ \E other \in PromptIds : store.promptUIStates[other].present

\* C35: prompt switch round trip: for prompts A and B, setCurrentPrompt(B)
\* followed by setCurrentPrompt(A) with no operation in between restores
\* A's working state exactly: the live structure and uiGlobalControlValues
\* (of the fields the claim lists, the two the model holds) equal what they
\* were immediately before leaving A, for every live structure including
\* the empty one.
C35_PromptSwitchRoundTrip ==
    store.currentPrompt # NoPrompt =>
        \A b \in 1..Len(store.prompts), t \in ClockReadings :
            store.prompts[b].id # store.currentPrompt.id =>
                LET atB == Run(store, setCurrentPromptCalls(store,
                                                            store.prompts[b], t))
                    a == CHOOSE i \in 1..Len(atB.prompts) :
                            atB.prompts[i].id = store.currentPrompt.id
                    back == Run(atB, setCurrentPromptCalls(atB,
                                                           atB.prompts[a], t))
                IN  (\E i \in 1..Len(atB.prompts) :
                        atB.prompts[i].id = store.currentPrompt.id)
                    => /\ back.structure = store.structure
                       /\ back.uiGlobalControlValues
                            = store.uiGlobalControlValues

\* C36: per-prompt isolation: while prompt B is open, no sequence of
\* updateStructuralElement, setUiGlobalControlValues, resetElementContent,
\* resetControlValue or saveCurrentPrompt (manual or auto) changes
\* promptUIStates[A] or any version whose promptId is A, for any other
\* prompt A; and opening a prompt that has no saved UI state starts with
\* empty control values, not those of the previous prompt.
C36_PerPromptIsolation ==
    LET operations ==
            {<<Call("updateStructuralElement", id, [content |-> content])>> :
                id \in TargetIds, content \in Contents}
            \cup {<<Call("setUiGlobalControlValues", values, <<>>)>> :
                    values \in [ControlNames -> UserValues \cup {Absent}]}
            \cup {resetElementContentCalls(store, id) : id \in TargetIds}
            \cup {resetControlValueCalls(store, name) : name \in ControlNames}
            \cup {saveCurrentPromptCalls(store, isAutoSave, t) :
                    isAutoSave \in BOOLEAN, t \in ClockReadings}
        versionsOf(st, a) ==
            SelectSeq(st.versions, LAMBDA version : version.promptId = a)
    IN  /\ store.currentPrompt # NoPrompt =>
            \A calls \in operations :
                \A a \in PromptIds \ {store.currentPrompt.id} :
                    /\ Run(store, calls).promptUIStates[a]
                            = store.promptUIStates[a]
                    /\ versionsOf(Run(store, calls), a) = versionsOf(store, a)
        /\ \A b \in 1..Len(store.prompts), t \in ClockReadings :
                ~store.promptUIStates[store.prompts[b].id].present =>
                    Run(store, setCurrentPromptCalls(store, store.prompts[b], t))
                        .uiGlobalControlValues = EmptyValues

\* C37: working UI state mirrors the per-prompt record: in every state
\* reached after setCurrentPrompt(p) by setUiGlobalControlValues,
\* setUiCollapsedForElement, setUiCollapsedByElementId,
\* setUiMiniEditorCollapsed, toggleStarControl, toggleStarTextBox,
\* resetControlValue and updateStructuralElement, the top-level
\* starredControls, starredTextBoxes, uiGlobalControlValues,
\* uiCollapsedByElementId and uiMiniEditorCollapsed equal the same fields of
\* promptUIStates[p].
C37_WorkingStateMirrorsRecord ==
    store.currentPrompt # NoPrompt =>
        LET record == store.promptUIStates[store.currentPrompt.id]
        IN  /\ record.present
            /\ record.starredControls = store.starredControls
            /\ record.starredTextBoxes = store.starredTextBoxes
            /\ record.uiGlobalControlValues = store.uiGlobalControlValues
            /\ record.uiCollapsedByElementId = store.uiCollapsedByElementId
            /\ record.uiMiniEditorCollapsed = store.uiMiniEditorCollapsed

\* a prompt is open and its stars, its collapse map and its control values
\* have all been written since it was opened
C37_Witness ==
    /\ store.currentPrompt # NoPrompt
    /\ store.starredTextBoxes # <<>>
    /\ \E e \in ElementIds : store.uiCollapsedByElementId[e] = "true"
    /\ \E k \in ControlNames : store.uiGlobalControlValues[k] # Absent
    /\ store.promptUIStates[store.currentPrompt.id].starredTextBoxes
            = store.starredTextBoxes

\* C38: resetElementContent(id), when the baseline contains id, changes only
\* the content field of element id in the live structure: the other fields of
\* that element, every other element, the element order, the control values,
\* all versions and the baseline itself are unchanged, and modifiedStructure
\* is set to the resulting structure.
C38_ResetElementContentFrame ==
    \A id \in TargetIds :
        (/\ store.currentPrompt # NoPrompt
         /\ store.promptUIStates[store.currentPrompt.id].present
         /\ store.promptUIStates[store.currentPrompt.id].originalStructure.defined
         /\ HasElement(store.promptUIStates[store.currentPrompt.id]
                            .originalStructure.value, id)) =>
            LET p == store.currentPrompt.id
                after == Run(store, resetElementContentCalls(store, id))
            IN  /\ Len(after.structure) = Len(store.structure)
                /\ \A i \in 1..Len(store.structure) :
                        IF store.structure[i].id = id
                        THEN after.structure[i] =
                                [store.structure[i] EXCEPT
                                    !.content = after.structure[i].content]
                        ELSE after.structure[i] = store.structure[i]
                /\ after.uiGlobalControlValues = store.uiGlobalControlValues
                /\ after.versions = store.versions
                /\ after.prompts = store.prompts
                /\ after.currentPrompt = store.currentPrompt
                /\ after.promptUIStates[p].originalStructure
                        = store.promptUIStates[p].originalStructure
                /\ after.promptUIStates[p].originalControlValues
                        = store.promptUIStates[p].originalControlValues
                /\ after.promptUIStates[p].uiGlobalControlValues
                        = store.promptUIStates[p].uiGlobalControlValues
                /\ after.promptUIStates[p].modifiedStructure
                        = SomeStructure(after.structure)
                /\ \A q \in PromptIds \ {p} :
                        after.promptUIStates[q] = store.promptUIStates[q]

\* the baseline holds id, the live structure has a second element whose
\* content differs from the baseline's content of id, and the reset changes
\* the content of id
C38_Witness ==
    \E id \in TargetIds :
        /\ store.currentPrompt # NoPrompt
        /\ store.promptUIStates[store.currentPrompt.id].present
        /\ store.promptUIStates[store.currentPrompt.id].originalStructure.defined
        /\ HasElement(store.promptUIStates[store.currentPrompt.id]
                            .originalStructure.value, id)
        /\ \E i \in 1..Len(store.structure) :
                /\ store.structure[i].id # id
                /\ store.structure[i].content
                        # ContentOf(store.promptUIStates[store.currentPrompt.id]
                                        .originalStructure.value, id)
        /\ Run(store, resetElementContentCalls(store, id)).structure
                # store.structure

\* C39: resetControlValue(name), when a control-value baseline exists, sets
\* the control to the baseline's value for name if the baseline has one and
\* otherwise removes name from the control values; the value of every other
\* control is unchanged, and the same resulting map is stored both in the
\* working uiGlobalControlValues and in promptUIStates[currentPrompt].
C39_ResetControlValue ==
    \A name \in ControlNames :
        (/\ store.currentPrompt # NoPrompt
         /\ store.promptUIStates[store.currentPrompt.id].present
         /\ store.promptUIStates[store.currentPrompt.id]
                .originalControlValues.defined) =>
            LET p == store.currentPrompt.id
                baseline == store.promptUIStates[p].originalControlValues.value
                after == Run(store, resetControlValueCalls(store, name))
            IN  /\ after.uiGlobalControlValues[name] = baseline[name]
                /\ \A other \in ControlNames \ {name} :
                        after.uiGlobalControlValues[other]
                            = store.uiGlobalControlValues[other]
                /\ after.promptUIStates[p].present
                /\ after.promptUIStates[p].uiGlobalControlValues
                        = after.uiGlobalControlValues

\* the baseline has a value for one control and none for another, the first
\* has lost its value and the second has got one since, and either reset
\* changes the values
C39_Witness ==
    /\ store.currentPrompt # NoPrompt
    /\ store.promptUIStates[store.currentPrompt.id].present
    /\ store.promptUIStates[store.currentPrompt.id].originalControlValues.defined
    /\ \E name, other \in ControlNames :
        LET baseline == store.promptUIStates[store.currentPrompt.id]
                            .originalControlValues.value
        IN  /\ baseline[name] # Absent
            /\ baseline[other] = Absent
            /\ store.uiGlobalControlValues[name] # baseline[name]
            /\ store.uiGlobalControlValues[other] # Absent
            /\ Run(store, resetControlValueCalls(store, name))
                    .uiGlobalControlValues[name] = baseline[name]
            /\ Run(store, resetControlValueCalls(store, other))
                    .uiGlobalControlValues[other] = Absent

\* C40: no orphaned prompt data: in every reachable store state, every
\* version's promptId and every key of promptUIStates is the id of a prompt
\* present in prompts; this is kept by deletePrompt, deleteProject,
\* saveCurrentPrompt, updateStructuralElement and setCurrentPrompt in any
\* order, including when the deleted prompt is the one currently open.
C40_NoOrphanedPromptData ==
    LET present == {store.prompts[i].id : i \in 1..Len(store.prompts)}
    IN  /\ \A i \in 1..Len(store.versions) :
                store.versions[i].promptId \in present
        /\ \A p \in PromptIds :
                store.promptUIStates[p].present => p \in present

====
